---- MODULE Spec2Model ----
(***************************************************************************)
(* Model of the ballista test service: the test-lifecycle controllers, the *)
(* application state (result registry, running flag, time-series tracker,  *)
(* single WebSocket client slot) and the request drivers.                  *)
(*                                                                         *)
(* The repository holds two generations of the HTTP controllers:           *)
(*   - controller/test.rs: handlers guarded by AppState::is_running that   *)
(*     run the requests inline in one background task ("Spec");            *)
(*   - controller/{load,stress,api}_test_controller.rs with                *)
(*     controller/test_common.rs: a TestContext, a driver and an           *)
(*     aggregator task linked by a bounded channel ("SpecAgg").            *)
(* Both publish through AppState::send_test_update (model/state.rs).       *)
(* Times are not measured: every comparison of the clock with a deadline   *)
(* or an interval is a nondeterministic choice, and response times are     *)
(* drawn from a small set.                                                 *)
(***************************************************************************)
EXTENDS Integers, Sequences, FiniteSets, TLC

(***************************************************************************)
(* Bounds of the model.                                                    *)
(***************************************************************************)
\* largest num_requests / number of API tests / stress batches of one test
\* run by the controller/test.rs handlers
MaxLegacyRequests == 1
\* largest num_requests / number of API tests of a TestContext controller
MaxRequests == 2
\* capacity of the WebSocket client's mpsc queue (100 in the code), scaled
SinkCap == 2

\* test ids generate_test_id can return: rng.gen::<u32>() scaled to two values
TestIds == {"test-1", "test-2"}

\* HTTP statuses a response carries
Statuses == {200, 500}

\* legacy load test: a progress update every 10th request
UpdateEvery == 10

\* points the time-series tracker retains
TSMaxPoints == 100

(***************************************************************************)
(* model/test.rs: TestType, TestStatus, TestMetrics, TestResult, TestUpdate *)
(***************************************************************************)
TestType == {"Load", "Stress", "Api"}

TestStatus == {"Pending", "Started", "Running", "Completed", "Error"}

EmptyCodes == [c \in Statuses |-> 0]

\* Option<TestMetrics>::None
NoMetrics ==
    [present |-> FALSE, requests_completed |-> 0, total_requests |-> 0,
     failed |-> 0, response_time_sum |-> 0, status_codes |-> EmptyCodes]

\* TestMetrics::default()
DefaultMetrics == [NoMetrics EXCEPT !.present = TRUE]

\* create_test_metrics: the counters of a snapshot, from which the rates
\* (error_rate = 100 * failed / requests_completed) are derived
create_test_metrics(requests_completed, total_requests, sum, status_codes, errors) ==
    [present |-> TRUE, requests_completed |-> requests_completed,
     total_requests |-> total_requests, failed |-> errors,
     response_time_sum |-> sum, status_codes |-> status_codes]

\* the `error: Option<String>` of an update: None, or a description, kept
\* as the set of things its text names ("test": the name of an API test,
\* "status": the status a response carried)
NoError == [some |-> FALSE, names |-> {}]
ErrorMsg(names) == [some |-> TRUE, names |-> names]

\* result.err().map(|e| format!("{:?}", e)): the description of a failed
\* request of a load or stress run
error_string(o) == IF o.ok THEN NoError ELSE ErrorMsg({})

\* final_error: Some("<n> requests failed ...") when failed_requests > 0
final_error(failed_requests) ==
    IF failed_requests > 0 THEN ErrorMsg({}) ELSE NoError

create_test_result(id, test_type, status, progress, metrics, error) ==
    [id |-> id, test_type |-> test_type, status |-> status,
     progress |-> progress, metrics |-> metrics, error |-> error]

create_test_update(id, test_type, status, progress, metrics, error) ==
    [id |-> id, test_type |-> test_type, status |-> status,
     progress |-> progress, metrics |-> metrics, error |-> error]

IsTerminal(status) == status \in {"Completed", "Error"}

(***************************************************************************)
(* State.                                                                  *)
(***************************************************************************)
VARIABLES
    is_running,     \* AppState::is_running
    test_results,   \* AppState::test_results, a Vec<TestResult>
    time_series,    \* AppState::time_series, the TimeSeriesTracker
    ws_client,      \* AppState::ws_client: "none" or the attached sink
    sink,           \* the viewer's mpsc channel: [open, queue]
    published,      \* history: per test id, the updates handed to send_test_update
    sub,            \* controller/test.rs: one record per submission
    test,           \* TestContext controllers: the submitted test and its handler
    chan,           \* the mpsc channel of request results: [items, tx_open]
    driver,         \* the controller task running load_test / stress_test
    agg,            \* the aggregator task (API: the fold of the test stream)
    viewer,         \* the WebSocket connection: "absent", "attached", "closed"
    pt,             \* http/client.rs: one call of load_test or stress_test
    conns,          \* the WebSocket connections asking for the client slot
    rule,           \* the API success rule applied to a series of outcomes
    cli,            \* one run of the command-line program
    socket,         \* controller/websocket.rs: one connection and its two tasks
    suite,          \* the entries of an API suite and the requests made for them
    publisher,      \* one call of send_test_update, lock by lock
    runs            \* load tests of the TestContext controller sharing the tracker

appVars == <<is_running, test_results, time_series, ws_client, sink, published>>
ctxVars == <<test, chan, driver, agg, viewer>>
legacyVars == <<is_running, sub>>
vars == <<is_running, test_results, time_series, ws_client, sink, published, sub,
          test, chan, driver, agg, viewer, pt, conns, rule, cli, socket, suite, publisher, runs>>

(***************************************************************************)
(* model/time_series.rs                                                    *)
(***************************************************************************)
\* seconds since the previous point, as add_point reads them from the clock
\* when a controller calls it
ElapsedSecs == {1}

\* TimeSeriesTracker::new / the state reset() leaves
NewTracker == [points |-> <<>>, has_last |-> FALSE, last_completed |-> 0]

\* TimeSeriesPoint::from_metrics: requests per second of the new point
from_metrics(completed, has_prev, prev_completed, elapsed_seconds) ==
    IF has_prev
    THEN IF elapsed_seconds > 0
         THEN (completed - prev_completed) \div elapsed_seconds ELSE 0
    ELSE IF elapsed_seconds > 0 THEN completed \div elapsed_seconds ELSE 0

\* an add_point that, once full, makes room by dropping the latest point kept
add_point_evicts_latest(ts, metrics, elapsed) ==
    LET point == [requests_completed |-> metrics.requests_completed,
                  rps |-> from_metrics(metrics.requests_completed, ts.has_last,
                                       ts.last_completed, elapsed)]
    IN [points |-> IF Len(ts.points) + 1 > TSMaxPoints
                   THEN Append(SubSeq(ts.points, 1, Len(ts.points) - 1), point)
                   ELSE Append(ts.points, point),
        has_last |-> TRUE,
        last_completed |-> metrics.requests_completed]

\* TimeSeriesTracker::add_point
add_point(ts, metrics, elapsed) ==
    LET point == [requests_completed |-> metrics.requests_completed,
                  rps |-> from_metrics(metrics.requests_completed, ts.has_last,
                                       ts.last_completed, elapsed)]
        pushed == Append(ts.points, point)
    IN [points |-> IF Len(pushed) > TSMaxPoints THEN Tail(pushed) ELSE pushed,
        has_last |-> TRUE,
        last_completed |-> metrics.requests_completed]

(***************************************************************************)
(* model/state.rs: the WebSocket client slot and the publishing calls      *)
(***************************************************************************)
\* Sender::try_send: Closed is reported before Full
try_send_result(s) ==
    IF ~s.open THEN "Closed"
    ELSE IF Len(s.queue) >= SinkCap THEN "Full" ELSE "Ok"

\* a client channel that hands over the newest frame first
send_to_client_newest_first(b, frame) ==
    IF b.ws_client = "none" THEN b
    ELSE IF try_send_result(b.sink) = "Ok"
         THEN [b EXCEPT !.sink.queue = <<frame>> \o @]
         ELSE IF try_send_result(b.sink) = "Closed"
              THEN [b EXCEPT !.ws_client = "none"]
              ELSE b

\* a try_send whose caller also evicts the client when its queue is full
send_to_client_full_evicts(b, frame) ==
    IF b.ws_client = "none" THEN b
    ELSE IF try_send_result(b.sink) = "Ok"
         THEN [b EXCEPT !.sink.queue = Append(@, frame)]
         ELSE [b EXCEPT !.ws_client = "none"]

\* one try_send on the client in the slot, with the caller's error handling:
\* Ok enqueues, Full drops the frame, Closed calls remove_ws_connection
send_to_client(b, frame) ==
    IF b.ws_client = "none" THEN b
    ELSE IF try_send_result(b.sink) = "Ok"
         THEN [b EXCEPT !.sink.queue = Append(@, frame)]
         ELSE IF try_send_result(b.sink) = "Closed"
              THEN [b EXCEPT !.ws_client = "none"]
              ELSE b

\* the fallback try_send of send_test_update: every error is only reported
send_fallback(b, frame) ==
    IF b.ws_client # "none" /\ try_send_result(b.sink) = "Ok"
    THEN [b EXCEPT !.sink.queue = Append(@, frame)]
    ELSE b

\* receivers of AppState::test_updates: AppState::new drops the only one
\* and nothing subscribes
BroadcastReceivers == 0

UpdateFrame(update) ==
    [type |-> "test_update", id |-> update.id, status |-> update.status,
     completed |-> update.metrics.requests_completed]

\* AppState::send_test_update: the WebSocket client first, then the
\* broadcast channel, and the client again when the broadcast has no receiver
send_test_update(b, update) ==
    LET first == send_to_client(b, UpdateFrame(update))
    IN IF BroadcastReceivers > 0 THEN first
       ELSE send_fallback(first, UpdateFrame(update))

\* a blocking send in place of try_send: the call waits while the viewer's
\* sink is open and full
publish_waits(b) ==
    b.ws_client = "none" \/ ~b.sink.open \/ Len(b.sink.queue) < SinkCap

\* whether a publishing call can proceed: try_send never waits for the viewer
publish_ready(b) == TRUE

PointFrame(point) ==
    [type |-> "time_series_update", id |-> "", status |-> "",
     completed |-> point.requests_completed]

\* AppState::update_time_series, the part that reaches the client
send_point(b, ts) ==
    IF Len(ts.points) = 0 THEN b
    ELSE send_to_client(b, PointFrame(ts.points[Len(ts.points)]))

Broker == [ws_client |-> ws_client, sink |-> sink]

\* AppState::add_test_result: push
add_test_result(results, result) == Append(results, result)

\* AppState::get_test_result: the first record with the id, if any
HasResult(results, id) == \E i \in 1..Len(results) : results[i].id = id

get_test_result(results, id) ==
    results[CHOOSE i \in 1..Len(results) :
                /\ results[i].id = id
                /\ \A j \in 1..(i - 1) : results[j].id # id]

(***************************************************************************)
(* Publishing, as every controller does it.                                *)
(***************************************************************************)
Record(log, by, update) ==
    [log EXCEPT ![update.id] = Append(@, [by |-> by, update |-> update])]

\* state.send_test_update(update).await by task `by`
Publish(by, update) ==
    /\ publish_ready(Broker)
    /\ LET b == send_test_update(Broker, update)
       IN /\ ws_client' = b.ws_client
          /\ sink' = b.sink
    /\ published' = Record(published, by, update)

\* state.update_time_series(&metrics).await followed by
\* state.send_test_update(update).await
PublishWithPoint(by, metrics, update) ==
    /\ publish_ready(Broker)
    /\ \E elapsed \in ElapsedSecs :
         LET ts == add_point(time_series, metrics, elapsed)
             b == send_test_update(send_point(Broker, ts), update)
         IN /\ time_series' = ts
            /\ ws_client' = b.ws_client
            /\ sink' = b.sink
    /\ published' = Record(published, by, update)

(***************************************************************************)
(* controller/test.rs: start_load_test, start_stress_test, start_api_test  *)
(***************************************************************************)
\* the submissions received: two, enough for a race between two handlers
\* and for a submission after a release
Subs == {1, 2}

\* progress of a stress update: the share of duration_secs that has elapsed
StressProgress == {50}

\* response time of one request, in ms
ResponseTimes == {2}

\* outcome of send_request: a response with a status, or a transport error
Outcomes == [ok : {TRUE}, status : Statuses, duration : ResponseTimes]
            \cup {[ok |-> FALSE, status |-> 0, duration |-> 0]}

\* duration_secs of a stress submission (a u64): 0, a duration that fits the
\* clock, and one for which Instant + Duration overflows
DurationSecs == {"zero", "finite", "overflow"}

\* std::time::Instant + Duration panics when the sum cannot be represented
instant_add_panics(duration_secs) == duration_secs = "overflow"

IdleSub ==
    [pc |-> "idle", kind |-> "Load", id |-> "", total |-> 0, dur |-> "zero",
     completed |-> 0, errors |-> 0, sum |-> 0, codes |-> EmptyCodes]

SubMetrics(r) ==
    create_test_metrics(r.completed, r.total, r.sum, r.codes, r.errors)

\* the counters after one result of send_request
Count(r, o) ==
    IF o.ok
    THEN [r EXCEPT !.completed = @ + 1, !.sum = @ + o.duration,
                   !.codes[o.status] = @ + 1]
    ELSE [r EXCEPT !.completed = @ + 1, !.errors = @ + 1]

\* what the handler does with the flag it loaded: a set flag answers
\* "Another test is already running" and returns
AfterCheck(flag) == IF flag THEN "rejected" ELSE "start"

\* a handler that resets the time series before it looks at the flag
StartCheckResetsFirst(s) ==
    /\ sub[s].pc = "idle"
    /\ \E kind \in TestType :
         sub' = [sub EXCEPT ![s].kind = kind, ![s].pc = AfterCheck(is_running)]
    /\ time_series' = NewTracker
    /\ UNCHANGED <<is_running, test_results, ws_client, sink, published>>
    /\ UNCHANGED <<ctxVars, pt, conns, rule, cli, socket, suite, publisher, runs>>

\* the check on entry: is_running.load()
StartCheck(s) ==
    /\ sub[s].pc = "idle"
    /\ \E kind \in TestType :
         sub' = [sub EXCEPT ![s].kind = kind, ![s].pc = AfterCheck(is_running)]
    /\ UNCHANGED appVars
    /\ UNCHANGED <<ctxVars, pt, conns, rule, cli, socket, suite, publisher, runs>>

\* the rest of the handler: generate_test_id(), is_running.store(true),
\* add_test_result(Started); load and stress: send_test_update(Started) and
\* reset_time_series(); tokio::spawn of the task with the submitted config
StartTest(s) ==
    /\ sub[s].pc = "start"
    /\ is_running' = TRUE
    /\ \E id \in TestIds, n \in 0..MaxLegacyRequests, d \in DurationSecs :
         /\ sub' = [sub EXCEPT ![s].pc = "task", ![s].id = id,
                        ![s].total = IF sub[s].kind = "Load" THEN n ELSE 0,
                        ![s].dur = IF sub[s].kind = "Stress" THEN d ELSE "zero"]
         /\ test_results' = add_test_result(test_results,
                create_test_result(id, sub[s].kind, "Started", 0, NoMetrics, NoError))
         /\ IF sub[s].kind = "Api"
            THEN UNCHANGED <<time_series, ws_client, sink, published>>
            ELSE /\ Publish(s, create_test_update(id, sub[s].kind, "Started", 0,
                                                  NoMetrics, NoError))
                 /\ time_series' = NewTracker
    /\ UNCHANGED <<ctxVars, pt, conns, rule, cli, socket, suite, publisher, runs>>

\* the task's first steps: the stress task computes end_time (and panics
\* when it overflows); then the Running update is sent
TaskBegin(s) ==
    /\ sub[s].pc = "task"
    /\ IF sub[s].kind = "Stress" /\ instant_add_panics(sub[s].dur)
       THEN /\ sub' = [sub EXCEPT ![s].pc = "panicked"]
            /\ UNCHANGED appVars
       ELSE /\ Publish(s, create_test_update(sub[s].id, sub[s].kind, "Running", 0, NoMetrics, NoError))
            /\ sub' = [sub EXCEPT ![s].pc = IF sub[s].kind = "Api" THEN "read" ELSE "loop"]
            /\ UNCHANGED <<is_running, test_results, time_series>>
    /\ UNCHANGED <<ctxVars, pt, conns, rule, cli, socket, suite, publisher, runs>>

\* one iteration of `for _ in 0..total_requests`
LoadRequest(s) ==
    /\ sub[s].pc = "loop" /\ sub[s].kind = "Load"
    /\ sub[s].completed < sub[s].total
    /\ \E o \in Outcomes :
         LET r == Count(sub[s], o)
         IN /\ sub' = [sub EXCEPT ![s] = r]
            /\ IF r.completed % UpdateEvery = 0 \/ r.completed = r.total
               THEN PublishWithPoint(s, SubMetrics(r),
                        create_test_update(r.id, "Load", "Running",
                            (r.completed * 100) \div r.total, SubMetrics(r), NoError))
               ELSE UNCHANGED <<time_series, ws_client, sink, published>>
    /\ UNCHANGED <<is_running, test_results>>
    /\ UNCHANGED <<ctxVars, pt, conns, rule, cli, socket, suite, publisher, runs>>

\* one iteration of `while Instant::now() < end_time`: a batch of one
\* request per concurrent user (one user here), then the update
StressBatch(s) ==
    /\ sub[s].pc = "loop" /\ sub[s].kind = "Stress"
    /\ sub[s].dur = "finite"
    /\ sub[s].completed < MaxLegacyRequests
    /\ \E o \in Outcomes, progress \in StressProgress :
         LET r == Count(sub[s], o)
         IN /\ sub' = [sub EXCEPT ![s] = r]
            /\ PublishWithPoint(s, SubMetrics(r),
                   create_test_update(r.id, "Stress", "Running", progress,
                                      SubMetrics(r), NoError))
    /\ UNCHANGED <<is_running, test_results>>
    /\ UNCHANGED <<ctxVars, pt, conns, rule, cli, socket, suite, publisher, runs>>

\* final status of the load and the stress task
LoadStressFinalStatus(errors) == "Completed"

\* the loop ends (load: all requests made; stress: end_time reached):
\* add_test_result(final_result), send_test_update(final_update) with
\* progress 100, is_running.store(false)
LoadStressFinish(s) ==
    /\ sub[s].pc = "loop"
    /\ \/ sub[s].kind = "Load" /\ sub[s].completed = sub[s].total
       \/ sub[s].kind = "Stress"
    /\ test_results' = add_test_result(test_results,
           create_test_result(sub[s].id, sub[s].kind,
               LoadStressFinalStatus(sub[s].errors), 0, SubMetrics(sub[s]), NoError))
    /\ Publish(s, create_test_update(sub[s].id, sub[s].kind,
           LoadStressFinalStatus(sub[s].errors), 100, SubMetrics(sub[s]), NoError))
    /\ is_running' = FALSE
    /\ sub' = [sub EXCEPT ![s].pc = "done"]
    /\ UNCHANGED time_series
    /\ UNCHANGED <<ctxVars, pt, conns, rule, cli, socket, suite, publisher, runs>>

\* tokio::fs::read_to_string and serde_json::from_str of the suite succeed
ApiRead(s) ==
    /\ sub[s].pc = "read"
    /\ \E n \in 0..MaxLegacyRequests :
         sub' = [sub EXCEPT ![s].pc = "loop", ![s].total = n]
    /\ UNCHANGED appVars
    /\ UNCHANGED <<ctxVars, pt, conns, rule, cli, socket, suite, publisher, runs>>

\* reading or parsing the suite fails: add_test_result(error_result),
\* send_test_update(error_update) with Error and 0.0,
\* is_running.store(false), return
ApiReadError(s) ==
    /\ sub[s].pc = "read"
    /\ test_results' = add_test_result(test_results,
           create_test_result(sub[s].id, "Api", "Error", 0, NoMetrics, ErrorMsg({})))
    /\ Publish(s, create_test_update(sub[s].id, "Api", "Error", 0, NoMetrics, ErrorMsg({})))
    /\ is_running' = FALSE
    /\ sub' = [sub EXCEPT ![s].pc = "done"]
    /\ UNCHANGED time_series
    /\ UNCHANGED <<ctxVars, pt, conns, rule, cli, socket, suite, publisher, runs>>

\* one iteration of `for (i, test) in api_tests.iter().enumerate()`: the
\* test passes when the response status equals expected_status
ApiRequest(s) ==
    /\ sub[s].pc = "loop" /\ sub[s].kind = "Api"
    /\ sub[s].completed < sub[s].total
    /\ \E o \in Outcomes, expected_status \in Statuses :
         LET i == sub[s].completed
             progress == (i * 100) \div sub[s].total
             passed == o.ok /\ o.status = expected_status
             r == IF o.ok
                  THEN [sub[s] EXCEPT !.completed = @ + 1, !.sum = @ + o.duration,
                                      !.codes[o.status] = @ + 1,
                                      !.errors = IF passed THEN @ ELSE @ + 1]
                  ELSE [sub[s] EXCEPT !.completed = @ + 1, !.errors = @ + 1]
         IN /\ sub' = [sub EXCEPT ![s] = r]
            /\ IF o.ok
               THEN Publish(s, create_test_update(r.id, "Api", "Running", progress,
                        create_test_metrics(i + 1, r.total, r.sum, r.codes, r.errors),
                        NoError))
               ELSE Publish(s, create_test_update(r.id, "Api", "Running", progress,
                        NoMetrics, ErrorMsg({"test"})))
    /\ UNCHANGED <<is_running, test_results, time_series>>
    /\ UNCHANGED <<ctxVars, pt, conns, rule, cli, socket, suite, publisher, runs>>

\* final_status of the API task
ApiFinalStatus(failed_tests) == IF failed_tests = 0 THEN "Completed" ELSE "Error"

ApiFinalMetrics(r) ==
    create_test_metrics(r.total, r.total, r.sum, r.codes, r.errors)

\* after the loop: add_test_result(final_result),
\* send_test_update(final_update) with progress 100, is_running.store(false)
ApiFinish(s) ==
    /\ sub[s].pc = "loop" /\ sub[s].kind = "Api"
    /\ sub[s].completed = sub[s].total
    /\ test_results' = add_test_result(test_results,
           create_test_result(sub[s].id, "Api", ApiFinalStatus(sub[s].errors), 0,
                              ApiFinalMetrics(sub[s]), NoError))
    /\ Publish(s, create_test_update(sub[s].id, "Api", ApiFinalStatus(sub[s].errors),
                                     100, ApiFinalMetrics(sub[s]), NoError))
    /\ is_running' = FALSE
    /\ sub' = [sub EXCEPT ![s].pc = "done"]
    /\ UNCHANGED time_series
    /\ UNCHANGED <<ctxVars, pt, conns, rule, cli, socket, suite, publisher, runs>>

(***************************************************************************)
(* controller/test_common.rs and the load, stress and API controllers      *)
(* built on it: one submitted test, its driver and its aggregator.         *)
(***************************************************************************)
\* concurrent_users of a submission
ConcurrentUsers == {1, 2}

\* the accumulators of IncrementalLoadMetrics, IncrementalStressMetrics and
\* IncrementalApiMetrics before the first outcome
NewMetrics ==
    [requests_completed |-> 0, successful_requests |-> 0, failed_requests |-> 0,
     response_time_sum |-> 0, status_codes |-> EmptyCodes]

\* IncrementalApiMetrics::update with a status mismatch counted on neither side
api_update_mismatch_dropped(m, o, expected) ==
    IF o.ok
    THEN IF o.status # expected
         THEN [m EXCEPT !.requests_completed = @ + 1,
                        !.status_codes[o.status] = @ + 1]
         ELSE [m EXCEPT !.requests_completed = @ + 1,
                        !.successful_requests = @ + 1,
                        !.response_time_sum = @ + o.duration,
                        !.status_codes[o.status] = @ + 1]
    ELSE [m EXCEPT !.requests_completed = @ + 1, !.failed_requests = @ + 1]

\* IncrementalLoadMetrics::update
load_update(m, o) ==
    IF o.ok
    THEN [m EXCEPT !.requests_completed = @ + 1,
                   !.successful_requests = @ + 1,
                   !.response_time_sum = @ + o.duration,
                   !.status_codes[o.status] = @ + 1]
    ELSE [m EXCEPT !.requests_completed = @ + 1, !.failed_requests = @ + 1]

\* IncrementalStressMetrics::update
stress_update(m, o) ==
    IF o.ok
    THEN [m EXCEPT !.requests_completed = @ + 1,
                   !.successful_requests = @ + 1,
                   !.response_time_sum = @ + o.duration,
                   !.status_codes[o.status] = @ + 1]
    ELSE [m EXCEPT !.requests_completed = @ + 1, !.failed_requests = @ + 1]

\* an update that enters a status in the histogram only when it is the
\* expected one
api_update_histogram_of_passes(m, o, expected) ==
    IF o.ok
    THEN IF o.status # expected
         THEN [m EXCEPT !.requests_completed = @ + 1,
                        !.failed_requests = @ + 1]
         ELSE [m EXCEPT !.requests_completed = @ + 1,
                        !.successful_requests = @ + 1,
                        !.response_time_sum = @ + o.duration,
                        !.status_codes[o.status] = @ + 1]
    ELSE [m EXCEPT !.requests_completed = @ + 1, !.failed_requests = @ + 1]

\* IncrementalApiMetrics::update: a response whose status is not the
\* expected one is a failed request
api_update(m, o, expected) ==
    IF o.ok
    THEN IF o.status # expected
         THEN [m EXCEPT !.requests_completed = @ + 1,
                        !.failed_requests = @ + 1,
                        !.status_codes[o.status] = @ + 1]
         ELSE [m EXCEPT !.requests_completed = @ + 1,
                        !.successful_requests = @ + 1,
                        !.response_time_sum = @ + o.duration,
                        !.status_codes[o.status] = @ + 1]
    ELSE [m EXCEPT !.requests_completed = @ + 1, !.failed_requests = @ + 1]

\* a snapshot that reports the requests still to come as requests_completed
calculate_metrics_remaining(m, total_planned_requests) ==
    create_test_metrics(total_planned_requests - m.requests_completed,
                        total_planned_requests, m.response_time_sum,
                        m.status_codes, m.failed_requests)

\* IncrementalLoadMetrics::calculate_metrics and
\* IncrementalApiMetrics::calculate_final_metrics
calculate_metrics(m, total_planned_requests) ==
    create_test_metrics(m.requests_completed, total_planned_requests,
                        m.response_time_sum, m.status_codes, m.failed_requests)

\* IncrementalStressMetrics::calculate_metrics: total = completed
stress_calculate_metrics(m) ==
    create_test_metrics(m.requests_completed, m.requests_completed,
                        m.response_time_sum, m.status_codes, m.failed_requests)

\* progress of a load or API run after `count` of `total` outcomes
Progress(count, total) ==
    IF (count * 100) \div total > 100 THEN 100 ELSE (count * 100) \div total

\* the registry write of TestContext::send_update: the record found under
\* the id, with the update's fields, pushed by add_test_result
store_update(results, update) ==
    IF HasResult(results, update.id)
    THEN add_test_result(results,
            [get_test_result(results, update.id) EXCEPT
                !.status = update.status, !.progress = update.progress,
                !.metrics = update.metrics, !.error = update.error])
    ELSE results

\* TestContext::send_update
send_update(by, status, progress, metrics, error) ==
    LET update == create_test_update(test.id, test.kind, status, progress,
                                     metrics, error)
    IN /\ Publish(by, update)
       /\ test_results' = store_update(test_results, update)

\* TestContext::send_update followed by TestContext::update_time_series
send_update_and_point(by, status, progress, metrics, error) ==
    LET update == create_test_update(test.id, test.kind, status, progress,
                                     metrics, error)
    IN /\ publish_ready(Broker)
       /\ \E elapsed \in ElapsedSecs :
            LET ts == add_point(time_series, metrics, elapsed)
                b == send_point(send_test_update(Broker, update), ts)
            IN /\ time_series' = ts
               /\ ws_client' = b.ws_client
               /\ sink' = b.sink
       /\ published' = Record(published, by, update)
       /\ test_results' = store_update(test_results, update)

\* TestContext::complete_test
complete_status(error) == IF error.some THEN "Error" ELSE "Completed"

complete_test(by, metrics, error) ==
    send_update(by, complete_status(error), 100, metrics, error)

\* `response` is the HTTP response the handler holds: TestContext::new
\* builds the {"id", "status": "started"} body
NoTest == [pc |-> "none", kind |-> "Load", id |-> "", total |-> 0, conc |-> 0,
           response |-> "none"]
NoChan == [items |-> <<>>, tx_open |-> FALSE]
NoDriver == [pc |-> "idle", started |-> 0, inflight |-> 0, stop |-> FALSE]
\* transport_errors: the Err results the aggregator has been given
NoAgg == [pc |-> "idle", aborted |-> FALSE, received_count |-> 0,
          transport_errors |-> 0, m |-> NewMetrics]

\* TestContext::new, then the handler building its TestConfig: num_requests
\* of a load test, duration_secs of a stress test, the tests of an API suite
CtxNew ==
    /\ test.pc = "none"
    /\ \E kind \in TestType, id \in TestIds, conc \in ConcurrentUsers :
        \E total \in 0..(IF kind = "Stress" THEN 1 ELSE MaxRequests) :
            /\ test' = [pc |-> "created", kind |-> kind, id |-> id,
                        total |-> total, conc |-> conc,
                        response |-> "started"]
            /\ test_results' = add_test_result(test_results,
                   create_test_result(id, kind, "Pending", 0, NoMetrics, NoError))
    /\ time_series' = NewTracker
    /\ UNCHANGED <<ws_client, sink, published, chan, driver, agg, viewer>>
    /\ UNCHANGED <<legacyVars, pt, conns, rule, cli, socket, suite, publisher, runs>>

\* num_requests == 0, duration_secs == 0 or an empty suite: complete_test
\* with the default metrics and an error, and the handler returns
CtxInvalid ==
    /\ test.pc = "created" /\ test.total = 0
    /\ complete_test("handler", DefaultMetrics, ErrorMsg({}))
    /\ test' = [test EXCEPT !.pc = "returned"]
    /\ UNCHANGED <<time_series, chan, driver, agg, viewer>>
    /\ UNCHANGED <<legacyVars, pt, conns, rule, cli, socket, suite, publisher, runs>>

\* tokio::spawn of the controller task, which opens the channel and spawns
\* the aggregator (API: the task folding the stream of tests)
CtxSpawn ==
    /\ test.pc = "created" /\ test.total > 0
    /\ test' = [test EXCEPT !.pc = "spawned"]
    /\ IF test.kind = "Api"
       THEN /\ agg' = [agg EXCEPT !.pc = "fold"]
            /\ UNCHANGED <<chan, driver>>
       ELSE /\ agg' = [agg EXCEPT !.pc = "recv"]
            /\ chan' = [items |-> <<>>, tx_open |-> TRUE]
            /\ driver' = [driver EXCEPT !.pc = "run"]
    /\ UNCHANGED <<appVars, viewer>>
    /\ UNCHANGED <<legacyVars, pt, conns, rule, cli, socket, suite, publisher, runs>>

\* capacity of the channel of request results, scaled down from 1024 to
\* less than the requests of a run, so that the channel fills
ChanCap == 1

\* the driver called as load_test(&client, &config, result_tx, is_finished)
\* returns Err before issuing a request; its sender is dropped
DriverFail ==
    /\ driver.pc = "run" /\ driver.started = 0
    /\ driver' = [driver EXCEPT !.pc = "failed"]
    /\ chan' = [chan EXCEPT !.tx_open = FALSE]
    /\ UNCHANGED <<appVars, test, agg, viewer>>
    /\ UNCHANGED <<legacyVars, pt, conns, rule, cli, socket, suite, publisher, runs>>

\* the driver issues one more request: at most concurrent_users in flight,
\* num_requests in all for a load test, none after the stop flag
DriverStart ==
    /\ driver.pc = "run" /\ ~driver.stop
    /\ driver.inflight < test.conc
    /\ driver.started < (IF test.kind = "Load" THEN test.total ELSE MaxRequests)
    /\ driver' = [driver EXCEPT !.started = @ + 1, !.inflight = @ + 1]
    /\ UNCHANGED <<appVars, test, chan, agg, viewer>>
    /\ UNCHANGED <<legacyVars, pt, conns, rule, cli, socket, suite, publisher, runs>>

\* a driver whose send does not wait for room in the channel
DriverDeliverUnbounded ==
    /\ driver.pc = "run" /\ driver.inflight > 0
    /\ chan.tx_open
    /\ \E o \in Outcomes : chan' = [chan EXCEPT !.items = Append(@, o)]
    /\ driver' = [driver EXCEPT !.inflight = @ - 1]
    /\ UNCHANGED <<appVars, test, agg, viewer>>
    /\ UNCHANGED <<legacyVars, pt, conns, rule, cli, socket, suite, publisher, runs>>

\* a request in flight ends and its outcome is sent on the channel; the
\* send waits while the channel is full
DriverDeliver ==
    /\ driver.pc = "run" /\ driver.inflight > 0
    /\ chan.tx_open /\ Len(chan.items) < ChanCap
    /\ \E o \in Outcomes : chan' = [chan EXCEPT !.items = Append(@, o)]
    /\ driver' = [driver EXCEPT !.inflight = @ - 1]
    /\ UNCHANGED <<appVars, test, agg, viewer>>
    /\ UNCHANGED <<legacyVars, pt, conns, rule, cli, socket, suite, publisher, runs>>

\* the deadline of a stress test: the stop flag is set
DriverDeadline ==
    /\ driver.pc = "run" /\ test.kind = "Stress" /\ ~driver.stop
    /\ driver' = [driver EXCEPT !.stop = TRUE]
    /\ UNCHANGED <<appVars, test, chan, agg, viewer>>
    /\ UNCHANGED <<legacyVars, pt, conns, rule, cli, socket, suite, publisher, runs>>

\* the driver returns Ok: every request issued has delivered its outcome;
\* the sender is dropped, which closes the channel
DriverDone ==
    /\ driver.pc = "run" /\ driver.inflight = 0
    /\ IF test.kind = "Load" THEN driver.started = test.total ELSE driver.stop
    /\ driver' = [driver EXCEPT !.pc = "done"]
    /\ chan' = [chan EXCEPT !.tx_open = FALSE]
    /\ UNCHANGED <<appVars, test, agg, viewer>>
    /\ UNCHANGED <<legacyVars, pt, conns, rule, cli, socket, suite, publisher, runs>>

\* the controller task after Err: is_finished.store(true) and
\* aggregator_handle.abort()
CtlAbort ==
    /\ driver.pc = "failed"
    /\ driver' = [driver EXCEPT !.pc = "aborted", !.stop = TRUE]
    /\ agg' = [agg EXCEPT !.aborted = TRUE]
    /\ UNCHANGED <<appVars, test, chan, viewer>>
    /\ UNCHANGED <<legacyVars, pt, conns, rule, cli, socket, suite, publisher, runs>>

\* ... send_update(Error, progress, None, Some(error_msg))
CtlErrorUpdate ==
    /\ driver.pc = "aborted"
    /\ \E progress \in (IF test.kind = "Load" THEN {0} ELSE StressProgress) :
         send_update("controller", "Error", progress, NoMetrics, ErrorMsg({}))
    /\ driver' = [driver EXCEPT !.pc = "error_sent"]
    /\ UNCHANGED <<time_series, test, chan, agg, viewer>>
    /\ UNCHANGED <<legacyVars, pt, conns, rule, cli, socket, suite, publisher, runs>>

\* ... complete_test(TestMetrics::default(), Some(error_msg))
CtlComplete ==
    /\ driver.pc = "error_sent"
    /\ complete_test("controller", DefaultMetrics, ErrorMsg({}))
    /\ driver' = [driver EXCEPT !.pc = "completed"]
    /\ UNCHANGED <<time_series, test, chan, agg, viewer>>
    /\ UNCHANGED <<legacyVars, pt, conns, rule, cli, socket, suite, publisher, runs>>

\* one turn of the aggregator's `while let Some(result) = result_rx.recv()`:
\* update the accumulators, and send a Running snapshot when the update
\* interval has elapsed (`due`) or, for a load test, on the last outcome
AggReceive ==
    /\ agg.pc = "recv" /\ ~agg.aborted
    /\ Len(chan.items) > 0
    /\ chan' = [chan EXCEPT !.items = Tail(@)]
    /\ LET o == Head(chan.items)
           count == agg.received_count + 1
       IN \E due \in BOOLEAN :
           IF test.kind = "Load"
           THEN LET m == load_update(agg.m, o)
                IN /\ agg' = [agg EXCEPT !.m = m, !.received_count = count,
                        !.transport_errors = IF o.ok THEN @ ELSE @ + 1]
                   /\ IF due \/ count = test.total
                      THEN send_update_and_point("aggregator", "Running",
                               Progress(count, test.total),
                               calculate_metrics(m, test.total), error_string(o))
                      ELSE UNCHANGED appVars
           ELSE LET m == stress_update(agg.m, o)
                IN /\ agg' = [agg EXCEPT !.m = m, !.received_count = count,
                        !.transport_errors = IF o.ok THEN @ ELSE @ + 1]
                   /\ IF due
                      THEN /\ \E progress \in StressProgress :
                                send_update("aggregator", "Running", progress,
                                            stress_calculate_metrics(m), error_string(o))
                           /\ UNCHANGED time_series
                      ELSE UNCHANGED appVars
    /\ UNCHANGED <<is_running, test, driver, viewer>>
    /\ UNCHANGED <<legacyVars, pt, conns, rule, cli, socket, suite, publisher, runs>>

\* recv() returns None: the channel is closed and empty. The load aggregator
\* sends a Completed snapshot and a last time-series point, the stress
\* aggregator a Running snapshot at progress 100
AggClosed ==
    /\ agg.pc = "recv" /\ ~agg.aborted
    /\ Len(chan.items) = 0 /\ ~chan.tx_open
    /\ IF test.kind = "Load"
       THEN send_update_and_point("aggregator", "Completed", 100,
                calculate_metrics(agg.m, test.total), final_error(agg.m.failed_requests))
       ELSE /\ send_update("aggregator", "Running", 100,
                     stress_calculate_metrics(agg.m), final_error(agg.m.failed_requests))
            /\ UNCHANGED time_series
    /\ agg' = [agg EXCEPT !.pc = "final"]
    /\ UNCHANGED <<is_running, test, chan, driver, viewer>>
    /\ UNCHANGED <<legacyVars, pt, conns, rule, cli, socket, suite, publisher, runs>>

\* ... then context.complete_test(final_metrics, final_error)
AggComplete ==
    /\ agg.pc = "final" /\ ~agg.aborted
    /\ complete_test("aggregator",
           IF test.kind = "Load" THEN calculate_metrics(agg.m, test.total)
           ELSE stress_calculate_metrics(agg.m),
           final_error(agg.m.failed_requests))
    /\ agg' = [agg EXCEPT !.pc = "finished"]
    /\ UNCHANGED <<is_running, time_series, test, chan, driver, viewer>>
    /\ UNCHANGED <<legacyVars, pt, conns, rule, cli, socket, suite, publisher, runs>>

\* request_error_msg of the fold: "Req success, but status <s> != expected
\* <e>" for a response of another status, "Request failed: <e>" for a
\* transport error, None otherwise
api_request_error_msg(o, expected_status) ==
    IF o.ok
    THEN IF o.status # expected_status THEN ErrorMsg({"status"}) ELSE NoError
    ELSE ErrorMsg({})

\* one turn of the fold of start_api_test over the results of the suite
ApiFold ==
    /\ agg.pc = "fold" /\ agg.received_count < test.total
    /\ \E o \in Outcomes, expected \in Statuses, due \in BOOLEAN :
        LET m == api_update(agg.m, o, expected)
            count == agg.received_count + 1
            request_error_msg == api_request_error_msg(o, expected)
        IN /\ agg' = [agg EXCEPT !.m = m, !.received_count = count,
                        !.transport_errors = IF o.ok THEN @ ELSE @ + 1]
           /\ IF request_error_msg.some \/ due \/ count = test.total
              THEN /\ send_update("aggregator", "Running",
                           Progress(count, test.total),
                           calculate_metrics(m, test.total), request_error_msg)
                   /\ UNCHANGED time_series
              ELSE UNCHANGED appVars
    /\ UNCHANGED <<is_running, test, chan, driver, viewer>>
    /\ UNCHANGED <<legacyVars, pt, conns, rule, cli, socket, suite, publisher, runs>>

\* the fold has ended: complete_test(final_metrics, final_error)
ApiComplete ==
    /\ agg.pc = "fold" /\ agg.received_count = test.total
    /\ complete_test("aggregator", calculate_metrics(agg.m, test.total),
                     final_error(agg.m.failed_requests))
    /\ agg' = [agg EXCEPT !.pc = "finished"]
    /\ UNCHANGED <<is_running, time_series, test, chan, driver, viewer>>
    /\ UNCHANGED <<legacyVars, pt, conns, rule, cli, socket, suite, publisher, runs>>

(***************************************************************************)
(* The viewer: the WebSocket connection holding the receiving end of the  *)
(* sink installed in the client slot.                                      *)
(***************************************************************************)
\* AppState::set_ws_connection with the slot empty: the sender is installed
ViewerAttach ==
    /\ viewer = "absent" /\ ws_client = "none"
    /\ ws_client' = "client"
    /\ sink' = [open |-> TRUE, queue |-> <<>>]
    /\ viewer' = "attached"
    /\ UNCHANGED <<is_running, test_results, time_series, published,
                   test, chan, driver, agg>>
    /\ UNCHANGED <<legacyVars, pt, conns, rule, cli, socket, suite, publisher, runs>>

\* the connection's forwarding task takes one frame from the sink
ViewerRead ==
    /\ viewer = "attached" /\ Len(sink.queue) > 0
    /\ sink' = [sink EXCEPT !.queue = Tail(@)]
    /\ UNCHANGED <<is_running, test_results, time_series, ws_client, published,
                   test, chan, driver, agg, viewer>>
    /\ UNCHANGED <<legacyVars, pt, conns, rule, cli, socket, suite, publisher, runs>>

\* the connection ends and its receiver is dropped; the slot keeps the
\* sender until a publishing call finds it closed
ViewerClose ==
    /\ viewer = "attached"
    /\ sink' = [open |-> FALSE, queue |-> <<>>]
    /\ viewer' = "closed"
    /\ UNCHANGED <<is_running, test_results, time_series, ws_client, published,
                   test, chan, driver, agg>>
    /\ UNCHANGED <<legacyVars, pt, conns, rule, cli, socket, suite, publisher, runs>>

(***************************************************************************)
(* http/client.rs: load_test and perform_test, the driver that folds the   *)
(* results of its requests into the shared TestMetrics.                    *)
(***************************************************************************)
\* the largest total_requests of a perform_test run
MaxDriverRequests == 3

\* `dropped` counts the requests that were in flight when the future of
\* perform_test was dropped
NoCall == [pc |-> "idle", mode |-> "load", total |-> 0, conc |-> 0,
           issued |-> 0, inflight |-> 0, dropped |-> 0,
           is_finished |-> FALSE, cancelled |-> FALSE,
           requests_completed |-> 0, errors |-> 0, status_codes |-> EmptyCodes]

\* add_request_metric: send_request leaves RequestResult.error at None
add_request_metric(metrics, result) ==
    [metrics EXCEPT !.requests_completed = @ + 1,
                    !.status_codes[result.status] = @ + 1]

\* config.concurrency of a driver call: a u32 that nothing validates
Concurrency == {0} \cup ConcurrentUsers

\* load_test: Err(NoUrls) for an empty url list, otherwise perform_test
LoadTestCall ==
    /\ pt.pc = "idle"
    /\ \E urls \in 0..1, total \in 0..MaxDriverRequests,
          conc \in Concurrency :
         pt' = IF urls = 0 THEN [pt EXCEPT !.pc = "no_urls"]
               ELSE [pt EXCEPT !.pc = "run", !.total = total, !.conc = conc]
    /\ UNCHANGED <<appVars, ctxVars, sub, conns, rule, cli, socket, suite, publisher, runs>>

\* stress_test: Err(NoUrls) for an empty url list, otherwise perform_test
\* raced against sleep_until(end_time); total_requests is None
StressTestCall ==
    /\ pt.pc = "idle"
    /\ \E urls \in 0..1, conc \in Concurrency :
         pt' = IF urls = 0 THEN [pt EXCEPT !.pc = "no_urls", !.mode = "stress"]
               ELSE [pt EXCEPT !.pc = "run", !.mode = "stress", !.conc = conc]
    /\ UNCHANGED <<appVars, ctxVars, sub, conns, rule, cli, socket, suite, publisher, runs>>

\* requests the stream of a call can yield: total_requests, or for a stress
\* test u32::MAX, cut down to MaxDriverRequests
StreamLength == IF pt.mode = "load" THEN pt.total ELSE MaxDriverRequests

\* a buffer that polls one more request although `concurrency` are in flight
PerformIssueUnbuffered ==
    /\ pt.pc = "run"
    /\ pt.issued < StreamLength
    /\ pt' = [pt EXCEPT !.issued = @ + 1, !.inflight = @ + 1]
    /\ UNCHANGED <<appVars, ctxVars, sub, conns, rule, cli, socket, suite, publisher, runs>>

\* buffer_unordered(concurrency) polls one more request of the
\* take(total_requests) stream
PerformIssue ==
    /\ pt.pc = "run"
    /\ pt.inflight < pt.conc /\ pt.issued < StreamLength
    /\ pt' = [pt EXCEPT !.issued = @ + 1, !.inflight = @ + 1]
    /\ UNCHANGED <<appVars, ctxVars, sub, conns, rule, cli, socket, suite, publisher, runs>>

\* a request ends: take_while ends the stream when is_finished is set,
\* otherwise the fold adds the result to the metrics if it is Ok
PerformResult ==
    /\ pt.pc = "run" /\ pt.inflight > 0
    /\ \E result \in Outcomes :
         pt' = IF pt.is_finished
               THEN [pt EXCEPT !.pc = "done", !.inflight = @ - 1,
                               !.cancelled = TRUE]
               ELSE IF result.ok
                    THEN [add_request_metric(pt, result) EXCEPT
                             !.inflight = @ - 1]
                    ELSE [pt EXCEPT !.inflight = @ - 1]
    /\ UNCHANGED <<appVars, ctxVars, sub, conns, rule, cli, socket, suite, publisher, runs>>

\* the stream is exhausted: perform_test returns Ok(()). The buffer polls
\* the take(total_requests) stream, and so finds its end, only while fewer
\* than `concurrency` requests are in flight
PerformEnd ==
    /\ pt.pc = "run" /\ pt.mode = "load"
    /\ pt.inflight = 0 /\ pt.issued = pt.total
    /\ pt.inflight < pt.conc
    /\ pt' = [pt EXCEPT !.pc = "done"]
    /\ UNCHANGED <<appVars, ctxVars, sub, conns, rule, cli, socket, suite, publisher, runs>>

\* the deadline of stress_test: select! takes the sleep_until branch, which
\* drops the future of perform_test with the requests it has in flight,
\* stores is_finished and returns Ok(())
StressDeadline ==
    /\ pt.pc = "run" /\ pt.mode = "stress"
    /\ pt' = [pt EXCEPT !.pc = "done", !.is_finished = TRUE,
                        !.dropped = pt.inflight, !.inflight = 0]
    /\ UNCHANGED <<appVars, ctxVars, sub, conns, rule, cli, socket, suite, publisher, runs>>

\* the owner of is_finished cancels the run
SetFinished ==
    /\ pt.pc = "run" /\ ~pt.is_finished
    /\ pt' = [pt EXCEPT !.is_finished = TRUE]
    /\ UNCHANGED <<appVars, ctxVars, sub, conns, rule, cli, socket, suite, publisher, runs>>

(***************************************************************************)
(* model/state.rs: the client slot as WebSocket connections come and go    *)
(* while updates are published.                                            *)
(***************************************************************************)
\* the connections that ask for the slot
Viewers == {"v1", "v2"}

NoConns == [v \in Viewers |-> "idle"]

\* the Message::Ping(vec![]) of the liveness probe
PingFrame == [type |-> "ping", id |-> "", status |-> "", completed |-> 0]

\* the channel of a new connection
NewSink == [open |-> TRUE, queue |-> <<>>]

\* a set_ws_connection that installs the new sender without probing
set_ws_connection_no_probe(b, v) ==
    [ws_client |-> v, sink |-> NewSink, accepted |-> TRUE]

\* AppState::set_ws_connection: an existing sender with free capacity is
\* probed with try_send(Ping); if the probe is accepted the new connection
\* is refused, in every other case the new sender takes the slot
set_ws_connection(b, v) ==
    IF b.ws_client # "none" /\ Len(b.sink.queue) < SinkCap
       /\ try_send_result(b.sink) = "Ok"
    THEN [ws_client |-> b.ws_client,
          sink |-> [b.sink EXCEPT !.queue = Append(@, PingFrame)],
          accepted |-> FALSE]
    ELSE [ws_client |-> v, sink |-> NewSink, accepted |-> TRUE]

\* a connection is upgraded and calls set_ws_connection with its sender
WsConnect(v) ==
    /\ conns[v] = "idle"
    /\ LET r == set_ws_connection(Broker, v)
       IN /\ ws_client' = r.ws_client
          /\ sink' = r.sink
          /\ conns' = [w \in Viewers |->
                IF w = v THEN (IF r.accepted THEN "attached" ELSE "rejected")
                ELSE IF r.accepted /\ w = ws_client /\ conns[w] = "attached"
                     THEN "evicted" ELSE conns[w]]
    /\ UNCHANGED <<is_running, test_results, time_series, published,
                   ctxVars, sub, pt, rule, cli, socket, suite, publisher, runs>>

\* the connection in the slot forwards one frame to its socket
WsRead(v) ==
    /\ conns[v] = "attached" /\ ws_client = v
    /\ Len(sink.queue) > 0
    /\ sink' = [sink EXCEPT !.queue = Tail(@)]
    /\ UNCHANGED <<is_running, test_results, time_series, ws_client, published,
                   ctxVars, sub, pt, conns, rule, cli, socket, suite, publisher, runs>>

\* the connection in the slot ends: its receiver is dropped, its sender
\* stays in the slot
WsClose(v) ==
    /\ conns[v] = "attached" /\ ws_client = v
    /\ sink' = [open |-> FALSE, queue |-> <<>>]
    /\ conns' = [conns EXCEPT ![v] = "closed"]
    /\ UNCHANGED <<is_running, test_results, time_series, ws_client, published,
                   ctxVars, sub, pt, rule, cli, socket, suite, publisher, runs>>

\* the updates some running test hands to send_test_update
BrokerUpdates ==
    {create_test_update(id, "Load", status, 50, DefaultMetrics, NoError) :
        id \in TestIds, status \in {"Running", "Completed"}}

\* AppState::send_test_update called by a controller
WsPublish ==
    /\ publish_ready(Broker)
    /\ \E update \in BrokerUpdates :
         LET b == send_test_update(Broker, update)
         IN /\ ws_client' = b.ws_client
            /\ sink' = b.sink
    /\ UNCHANGED <<is_running, test_results, time_series, published,
                   ctxVars, sub, pt, conns, rule, cli, socket, suite, publisher, runs>>

(***************************************************************************)
(* model/time_series.rs: the tracker over a long run of snapshots.         *)
(***************************************************************************)
\* snapshots fed to the tracker between two resets
MaxTrackerAdds == 103

\* AppState::update_time_series: add_point with the metrics of a snapshot
\* that has one more request completed than the previous one
TrackerAddPoint ==
    /\ time_series.last_completed < MaxTrackerAdds
    /\ \E elapsed \in ElapsedSecs :
         LET n == time_series.last_completed + 1
         IN time_series' = add_point(time_series,
                create_test_metrics(n, MaxTrackerAdds, 0, EmptyCodes, 0), elapsed)
    /\ UNCHANGED <<is_running, test_results, ws_client, sink, published,
                   ctxVars, sub, pt, conns, rule, cli, socket, suite, publisher, runs>>

\* AppState::reset_time_series: TimeSeriesTracker::reset
TrackerReset ==
    /\ time_series # NewTracker
    /\ time_series' = NewTracker
    /\ UNCHANGED <<is_running, test_results, ws_client, sink, published,
                   ctxVars, sub, pt, conns, rule, cli, socket, suite, publisher, runs>>

(***************************************************************************)
(* The success rule of API tests: api/types.rs and api_tester.rs on one    *)
(* side, the accumulator of controller/api_test_controller.rs on the other.*)
(***************************************************************************)
\* JSON bodies: "none" is an absent expected_body, or a response whose body
\* did not parse (response.json().await.ok() is None)
Bodies == {"none", "a", "b"}

\* api::types::is_test_successful
is_test_successful(expected_status, expected_body, status, body) ==
    status = expected_status /\ (expected_body = "none" \/ body = expected_body)

\* api_tester::run_test: the success field of the TestResult
run_test(o, expected_status, expected_body, body) ==
    IF o.ok
    THEN is_test_successful(expected_status, expected_body, o.status, body)
    ELSE FALSE

NoRule ==
    [n |-> 0, m |-> NewMetrics, success |-> FALSE,
     last |-> [o |-> [ok |-> FALSE, status |-> 0, duration |-> 0],
               expected_status |-> 200, expected_body |-> "none",
               body |-> "none"]]

\* one entry of a suite is run and its outcome folded: the service's ApiTest
\* (model/test/api_test.rs) has no expected_body field, so the accumulator
\* is given the expected status alone; run_test is given the whole entry
ApiOutcome ==
    /\ rule.n < MaxRequests
    /\ \E o \in Outcomes, expected_status \in Statuses,
          expected_body \in Bodies, body \in Bodies :
         rule' = [n |-> rule.n + 1,
                  m |-> api_update(rule.m, o, expected_status),
                  success |-> run_test(o, expected_status, expected_body, body),
                  last |-> [o |-> o, expected_status |-> expected_status,
                            expected_body |-> expected_body, body |-> body]]
    /\ UNCHANGED <<appVars, ctxVars, sub, pt, conns, cli, socket, suite, publisher, runs>>

(***************************************************************************)
(* args.rs, core/config.rs and main.rs: the command line and its           *)
(* validation. A string is the sequence of its characters.                 *)
(***************************************************************************)
Http == <<"h", "t", "t", "p", ":", "/", "/">>
Https == <<"h", "t", "t", "p", "s", ":", "/", "/">>
DotXml == <<".", "x", "m", "l">>
DotJson == <<".", "j", "s", "o", "n">>

\* the pieces command-line arguments are put together from
Fragments == {<<>>, Http, Https, DotXml, DotJson, <<"a">>, <<"h", "t", "t", "p">>}

\* the value of --url, --sitemap or --path
CliArgs == {a \o b \o c : a, b, c \in Fragments}

Commands == {"LoadTest", "StressTest", "ApiTest"}

\* str::starts_with and str::ends_with
starts_with(str, prefix) ==
    /\ Len(prefix) <= Len(str)
    /\ \A i \in 1..Len(prefix) : str[i] = prefix[i]

ends_with(str, suffix) ==
    /\ Len(suffix) <= Len(str)
    /\ \A i \in 1..Len(suffix) :
          str[Len(str) - Len(suffix) + i] = suffix[i]

\* a URL check that knows http:// only
starts_with_http_only(url) == starts_with(url, Http)

\* args::starts_with_http, args::validate_sitemap, args::validate_test_file
starts_with_http(url) == starts_with(url, Http) \/ starts_with(url, Https)

validate_sitemap(path) == ends_with(path, DotXml)

validate_test_file(path) == ends_with(path, DotJson)

\* Args::validate
validate(command, arg) ==
    CASE command = "LoadTest" ->
            IF starts_with_http(arg) THEN "Ok" ELSE "InvalidUrl"
      [] command = "StressTest" ->
            IF validate_sitemap(arg) THEN "Ok" ELSE "InvalidSitemap"
      [] command = "ApiTest" ->
            IF validate_test_file(arg) THEN "Ok" ELSE "InvalidTestFile"

\* core::config::validate, with its own closures
config_validate(command, arg) ==
    LET validate_url(url) ==
            IF ~starts_with(url, Http) /\ ~starts_with(url, Https)
            THEN "ArgValidation" ELSE "Ok"
        validate_file(path, extension) ==
            IF ~ends_with(path, extension) THEN "ArgValidation" ELSE "Ok"
    IN CASE command = "LoadTest" -> validate_url(arg)
         [] command = "StressTest" -> validate_file(arg, DotXml)
         [] command = "ApiTest" -> validate_file(arg, DotJson)

\* response_times and status_codes are the vectors of Metrics::new()
NoCli == [pc |-> "start", command |-> "LoadTest", arg |-> <<>>,
          result |-> "Ok", config_result |-> "Ok",
          response_times |-> <<>>, status_codes |-> <<>>]

\* main.rs parse_arguments: Args::parse() and args.validate(); an Err
\* leaves main through `?`
CliParse ==
    /\ cli.pc = "start"
    /\ \E command \in Commands, arg \in CliArgs :
         cli' = [cli EXCEPT
                    !.pc = IF validate(command, arg) = "Ok"
                           THEN "validated" ELSE "rejected",
                    !.command = command, !.arg = arg,
                    !.result = validate(command, arg),
                    !.config_result = config_validate(command, arg)]
    /\ UNCHANGED <<appVars, ctxVars, sub, pt, conns, rule, socket, suite, publisher, runs>>

\* the rest of main: the test of the command is run
CliRunTest ==
    /\ cli.pc = "validated"
    /\ cli' = [cli EXCEPT !.pc = "ran"]
    /\ UNCHANGED <<appVars, ctxVars, sub, pt, conns, rule, socket, suite, publisher, runs>>

(***************************************************************************)
(* metrics.rs and metrics/collector.rs: the requests a command-line run    *)
(* records, and their summary.                                             *)
(***************************************************************************)
\* requests recorded by one run
MaxRecorded == 11

\* duration (ms) and status of a recorded request
Recorded ==
    {[duration |-> 1, status |-> 200], [duration |-> 2, status |-> 500],
     [duration |-> 3, status |-> 200]}

None == [some |-> FALSE, value |-> 0, out_of_bounds |-> FALSE]
Some(v) == [some |-> TRUE, value |-> v, out_of_bounds |-> FALSE]

\* sorted_times[index], which panics past the end
Index(sorted_times, index) ==
    IF index < Len(sorted_times) THEN Some(sorted_times[index + 1])
    ELSE [some |-> FALSE, value |-> 0, out_of_bounds |-> TRUE]

\* sorted_times.get(index)
Get(sorted_times, index) ==
    IF index < Len(sorted_times) THEN Some(sorted_times[index + 1]) ELSE None

Min(a, b) == IF a < b THEN a ELSE b

saturating_sub(a, b) == IF a < b THEN 0 ELSE a - b

\* (len as f64 * percentile / 100.0).round() as usize: halves round up
round_percent(len, percentile) == (len * percentile + 50) \div 100

\* a percentile that takes its index without stepping back or clamping
calculate_percentile_unclamped(sorted_times, percentile) ==
    IF Len(sorted_times) = 0 THEN None
    ELSE Index(sorted_times, round_percent(Len(sorted_times), percentile))

\* Metrics::calculate_percentile of metrics.rs
calculate_percentile(sorted_times, percentile) ==
    IF Len(sorted_times) = 0 THEN None
    ELSE Index(sorted_times,
               Min(saturating_sub(round_percent(Len(sorted_times), percentile), 1),
                   Len(sorted_times) - 1))

\* calculate_percentile of metrics/collector.rs
collector_calculate_percentile(sorted_times, percentile) ==
    Get(sorted_times,
        Min(saturating_sub(round_percent(Len(sorted_times), percentile), 1),
            saturating_sub(Len(sorted_times), 1)))

RECURSIVE sum(_)
\* response_times.iter().sum()
sum(times) == IF times = <<>> THEN 0 ELSE Head(times) + sum(Tail(times))

\* sort_unstable
sort_unstable(times) == SortSeq(times, LAMBDA a, b : a < b)

\* the fold of the status codes into a map of counts
count_codes(codes) ==
    [c \in {codes[i] : i \in 1..Len(codes)} |->
        Cardinality({i \in 1..Len(codes) : codes[i] = c})]

\* Metrics::summary of metrics.rs
summary(m) ==
    LET sorted_times == sort_unstable(m.response_times)
    IN [total_requests |-> Len(m.response_times),
        total_time |-> sum(m.response_times),
        min_duration |-> Get(sorted_times, 0),
        max_duration |-> IF sorted_times = <<>> THEN None
                         ELSE Some(sorted_times[Len(sorted_times)]),
        median_duration |-> calculate_percentile(sorted_times, 50),
        percentile_95 |-> calculate_percentile(sorted_times, 95),
        status_codes |-> count_codes(m.status_codes)]

\* calculate_summary of metrics/collector.rs
calculate_summary(m) ==
    LET sorted_times == sort_unstable(m.response_times)
    IN [total_requests |-> Len(m.response_times),
        total_time |-> sum(m.response_times),
        min_duration |-> Get(sorted_times, 0),
        max_duration |-> IF sorted_times = <<>> THEN None
                         ELSE Some(sorted_times[Len(sorted_times)]),
        median_duration |-> collector_calculate_percentile(sorted_times, 50),
        percentile_95 |-> collector_calculate_percentile(sorted_times, 95),
        status_codes |-> count_codes(m.status_codes)]

\* Metrics::add_request
MetricsAddRequest ==
    /\ Len(cli.response_times) < MaxRecorded
    /\ \E r \in Recorded :
         cli' = [cli EXCEPT !.response_times = Append(@, r.duration),
                            !.status_codes = Append(@, r.status)]
    /\ UNCHANGED <<appVars, ctxVars, sub, pt, conns, rule, socket, suite, publisher, runs>>

(***************************************************************************)
(* controller/websocket.rs: one connection. The receive task reads the     *)
(* messages of the viewer and answers on the connection's channel; the     *)
(* send task forwards the channel to the socket.                           *)
(***************************************************************************)
\* messages the viewer sends on one connection
MaxClientMessages == 3

\* capacity of the connection's channel, scaled down from 100
SocketCap == 2

Text(t) == [kind |-> "Text", text |-> t]
Ping == [kind |-> "Ping", text |-> ""]
Pong == [kind |-> "Pong", text |-> ""]
Close == [kind |-> "Close", text |-> ""]

\* what the viewer may send: the texts "ping" and "get_time_series", and a
\* protocol Ping
ClientMessages == {Text("ping"), Text("get_time_series"), Ping}

\* inbox: messages of the viewer not yet read; tx: the connection's channel;
\* wire: the frames written to the socket; text_pings: the "ping" texts sent
NoSocket == [pc |-> "idle", inbox |-> <<>>, tx |-> <<>>, wire |-> <<>>,
             sent |-> 0, text_pings |-> 0]

\* process_client_message: the frames a text is answered with
process_client_message(text) ==
    IF text = "get_time_series" THEN <<Text("time_series_history")>>
    ELSE <<>>

\* the match of the receive task on one message: the frames it sends on
\* the channel
receive_reply(msg) ==
    IF msg.kind = "Text" THEN process_client_message(msg.text)
    ELSE IF msg.kind = "Ping" THEN <<Pong>>
    ELSE <<>>

\* handle_socket: the socket is split and the two tasks are spawned
SocketOpen ==
    /\ socket.pc = "idle"
    /\ socket' = [socket EXCEPT !.pc = "open"]
    /\ UNCHANGED <<appVars, ctxVars, sub, pt, conns, rule, cli, suite, publisher, runs>>

\* the viewer sends a message
ClientSend ==
    /\ socket.pc = "open" /\ socket.sent < MaxClientMessages
    /\ \E msg \in ClientMessages :
         socket' = [socket EXCEPT
            !.inbox = Append(@, msg), !.sent = @ + 1,
            !.text_pings = IF msg = Text("ping") THEN @ + 1 ELSE @]
    /\ UNCHANGED <<appVars, ctxVars, sub, pt, conns, rule, cli, suite, publisher, runs>>

\* the viewer closes the connection
ClientClose ==
    /\ socket.pc = "open"
    /\ \A i \in 1..Len(socket.inbox) : socket.inbox[i] # Close
    /\ socket' = [socket EXCEPT !.inbox = Append(@, Close)]
    /\ UNCHANGED <<appVars, ctxVars, sub, pt, conns, rule, cli, suite, publisher, runs>>

\* one turn of `while let Some(result) = receiver.next().await`; a send on
\* the channel waits while the channel is full; Close ends the connection
SocketReceive ==
    /\ socket.pc = "open" /\ Len(socket.inbox) > 0
    /\ LET msg == Head(socket.inbox)
           reply == receive_reply(msg)
       IN /\ Len(socket.tx) + Len(reply) <= SocketCap
          /\ socket' = [socket EXCEPT
                !.inbox = Tail(@), !.tx = @ \o reply,
                !.pc = IF msg.kind = "Close" THEN "closed" ELSE @]
    /\ UNCHANGED <<appVars, ctxVars, sub, pt, conns, rule, cli, suite, publisher, runs>>

\* one turn of the send task: rx.recv() and sender.send(msg)
SocketForward ==
    /\ socket.pc = "open" /\ Len(socket.tx) > 0
    /\ socket' = [socket EXCEPT !.tx = Tail(@), !.wire = Append(@, Head(socket.tx))]
    /\ UNCHANGED <<appVars, ctxVars, sub, pt, conns, rule, cli, suite, publisher, runs>>

(***************************************************************************)
(* http/client.rs and api/tester.rs: the HTTP method of an ApiTest. A      *)
(* method is the sequence of its characters.                               *)
(***************************************************************************)
LowerLetters == <<"a", "c", "d", "e", "g", "h", "i", "l", "n", "o", "p", "r",
                  "s", "t", "u">>
UpperLetters == <<"A", "C", "D", "E", "G", "H", "I", "L", "N", "O", "P", "R",
                  "S", "T", "U">>

\* the character of `to` at the place `c` has in `from`, or `c` itself
Translate(c, from, to) ==
    IF \E i \in 1..Len(from) : from[i] = c
    THEN to[CHOOSE i \in 1..Len(from) : from[i] = c]
    ELSE c

\* str::to_uppercase and str::to_lowercase
to_uppercase(str) == [i \in 1..Len(str) |-> Translate(str[i], LowerLetters, UpperLetters)]
to_lowercase(str) == [i \in 1..Len(str) |-> Translate(str[i], UpperLetters, LowerLetters)]

GET == <<"G", "E", "T">>
POST == <<"P", "O", "S", "T">>
PUT == <<"P", "U", "T">>
DELETE == <<"D", "E", "L", "E", "T", "E">>
PATCH == <<"P", "A", "T", "C", "H">>
HEAD == <<"H", "E", "A", "D">>
OPTIONS == <<"O", "P", "T", "I", "O", "N", "S">>
TRACE == <<"T", "R", "A", "C", "E">>

\* the method fields of the entries of a suite
MethodTexts ==
    {GET, POST, PUT, DELETE, PATCH, HEAD, OPTIONS, TRACE}
    \cup {to_lowercase(m) : m \in {GET, POST, PUT, DELETE, PATCH, HEAD, OPTIONS, TRACE}}
    \cup {<<"G", "e", "t">>, <<"p", "a", "T", "c", "h">>, <<>>}

\* no request is made
NoRequest == <<"-">>

\* string_to_method: the reqwest Method, or Err(InvalidConfig)
string_to_method(method) ==
    IF to_uppercase(method) \in {GET, POST, PUT, DELETE, PATCH, HEAD, OPTIONS}
    THEN [ok |-> TRUE, method |-> to_uppercase(method)]
    ELSE [ok |-> FALSE, method |-> NoRequest]

\* api::tester::create_request: client.get / post / put / delete, or
\* Err(UnsupportedMethod)
create_request(method) ==
    IF to_lowercase(method) \in {to_lowercase(GET), to_lowercase(POST),
                                 to_lowercase(PUT), to_lowercase(DELETE)}
    THEN [ok |-> TRUE, method |-> to_uppercase(method)]
    ELSE [ok |-> FALSE, method |-> NoRequest]

\* by: the program that ran the last entry; method: its method field;
\* request: the method of the request made; failed: its outcome counted as
\* failed; m: the accumulator of the service; n: the entries run
NoSuite == [by |-> "none", n |-> 0, method |-> <<>>, request |-> NoRequest,
            failed |-> FALSE, m |-> NewMetrics]

\* the service runs an entry: send_api_request returns the Err of
\* string_to_method before any request, or makes the request; the fold
\* gives the result to IncrementalApiMetrics::update
ServiceApiTest ==
    /\ suite.n < MaxRequests
    /\ \E method \in MethodTexts, response \in Outcomes, expected \in Statuses :
         LET r == string_to_method(method)
             o == IF r.ok THEN response
                  ELSE [ok |-> FALSE, status |-> 0, duration |-> 0]
             m == api_update(suite.m, o, expected)
         IN suite' = [by |-> "service", n |-> suite.n + 1, method |-> method,
                      request |-> r.method,
                      failed |-> m.failed_requests > suite.m.failed_requests,
                      m |-> m]
    /\ UNCHANGED <<appVars, ctxVars, sub, pt, conns, rule, cli, socket, publisher, runs>>

\* the command-line program runs an entry: api::tester::run_test makes the
\* request of create_request, or handle_error gives a TestResult with
\* success false
CliApiTest ==
    /\ suite.n < MaxRequests
    /\ \E method \in MethodTexts, response \in Outcomes, expected \in Statuses :
         LET r == create_request(method)
             success == r.ok /\ run_test(response, expected, "none", "none")
         IN suite' = [by |-> "cli", n |-> suite.n + 1, method |-> method,
                      request |-> r.method, failed |-> ~success, m |-> suite.m]
    /\ UNCHANGED <<appVars, ctxVars, sub, pt, conns, rule, cli, socket, publisher, runs>>

(***************************************************************************)
(* model/state.rs: send_test_update lock by lock. Every method of the      *)
(* slot takes the mutex for itself, so other calls run between the         *)
(* get_ws_connection, the try_send and the remove_ws_connection of one     *)
(* publishing call.                                                        *)
(***************************************************************************)
\* pc: where the call is; client: the sender get_ws_connection cloned;
\* update: the update being published; frames: the frames of this update
\* accepted by the sink in the slot
NoPublisher == [pc |-> "idle", client |-> "none",
                update |-> create_test_update("", "Load", "Pending", 0,
                                              NoMetrics, NoError),
                frames |-> 0]

\* AppState::remove_ws_connection: the slot is emptied, whatever it holds
remove_ws_connection(b) == [b EXCEPT !.ws_client = "none"]

\* send_test_update is called: get_ws_connection clones the sender
PubGet ==
    /\ publisher.pc = "idle"
    /\ \E update \in BrokerUpdates :
         publisher' = [pc |-> IF ws_client = "none" THEN "broadcast" ELSE "got",
                       client |-> ws_client, update |-> update, frames |-> 0]
    /\ UNCHANGED <<appVars, ctxVars, sub, pt, conns, rule, cli, socket, suite, runs>>

\* client.try_send on the cloned sender: the channel of a connection that
\* has ended reports Closed; the channel in the slot takes the frame or is
\* Full; the channel of a connection replaced while open is out of the slot
PubTrySend ==
    /\ publisher.pc = "got"
    /\ IF conns[publisher.client] = "closed"
       THEN /\ publisher' = [publisher EXCEPT !.pc = "remove"]
            /\ UNCHANGED sink
       ELSE IF ws_client = publisher.client /\ try_send_result(sink) = "Ok"
            THEN /\ sink' = [sink EXCEPT
                        !.queue = Append(@, UpdateFrame(publisher.update))]
                 /\ publisher' = [publisher EXCEPT !.pc = "broadcast",
                                                   !.frames = @ + 1]
            ELSE /\ publisher' = [publisher EXCEPT !.pc = "broadcast"]
                 /\ UNCHANGED sink
    /\ UNCHANGED <<is_running, test_results, time_series, ws_client, published>>
    /\ UNCHANGED <<ctxVars, sub, pt, conns, rule, cli, socket, suite, runs>>

\* TrySendError::Closed: self.remove_ws_connection().await
PubRemove ==
    /\ publisher.pc = "remove"
    /\ ws_client' = remove_ws_connection(Broker).ws_client
    /\ publisher' = [publisher EXCEPT !.pc = "broadcast"]
    /\ UNCHANGED <<is_running, test_results, time_series, sink, published>>
    /\ UNCHANGED <<ctxVars, sub, pt, conns, rule, cli, socket, suite, runs>>

\* test_updates.send fails without receivers, and the update is sent to the
\* client in the slot once more
PubBroadcast ==
    /\ publisher.pc = "broadcast"
    /\ LET b == IF BroadcastReceivers > 0 THEN Broker
                ELSE send_fallback(Broker, UpdateFrame(publisher.update))
       IN /\ sink' = b.sink
          /\ publisher' = [publisher EXCEPT !.pc = "idle",
                !.frames = IF b.sink # sink THEN @ + 1 ELSE @]
    /\ UNCHANGED <<is_running, test_results, time_series, ws_client, published>>
    /\ UNCHANGED <<ctxVars, sub, pt, conns, rule, cli, socket, suite, runs>>

\* the end of handle_socket of a connection whose tasks have ended:
\* state.remove_ws_connection
WsCleanup(v) ==
    /\ conns[v] = "closed"
    /\ ws_client' = remove_ws_connection(Broker).ws_client
    /\ conns' = [conns EXCEPT ![v] = "gone"]
    /\ UNCHANGED <<is_running, test_results, time_series, sink, published>>
    /\ UNCHANGED <<ctxVars, sub, pt, rule, cli, socket, suite, publisher, runs>>

(***************************************************************************)
(* Load tests of the TestContext controller that overlap: TestContext::new *)
(* does not look at is_running, so a submission starts its test while       *)
(* another one runs, and both aggregators add to the one tracker.           *)
(***************************************************************************)
Runs == {1, 2}

NoRuns == [t \in Runs |-> [pc |-> "none", total |-> 0, received_count |-> 0]]

\* start_load_test: TestContext::new resets the time series, and the
\* aggregator is spawned
RunNew(t) ==
    /\ runs[t].pc = "none"
    /\ \E total \in 1..MaxRequests :
         runs' = [runs EXCEPT ![t] = [pc |-> "running", total |-> total,
                                      received_count |-> 0]]
    /\ time_series' = NewTracker
    /\ UNCHANGED <<is_running, test_results, ws_client, sink, published>>
    /\ UNCHANGED <<ctxVars, sub, pt, conns, rule, cli, socket, suite, publisher>>

\* one turn of the aggregator of test t: the outcome is counted and, when
\* the update interval has elapsed or the outcome is the last one,
\* update_time_series adds a point of the snapshot
RunSnapshot(t) ==
    /\ runs[t].pc = "running" /\ runs[t].received_count < runs[t].total
    /\ LET count == runs[t].received_count + 1
       IN /\ runs' = [runs EXCEPT ![t].received_count = count]
          /\ \E due \in BOOLEAN, elapsed \in ElapsedSecs :
               IF due \/ count = runs[t].total
               THEN time_series' = add_point(time_series,
                        create_test_metrics(count, runs[t].total, 0, EmptyCodes, 0),
                        elapsed)
               ELSE UNCHANGED time_series
    /\ UNCHANGED <<is_running, test_results, ws_client, sink, published>>
    /\ UNCHANGED <<ctxVars, sub, pt, conns, rule, cli, socket, suite, publisher>>

\* the channel of test t is closed: the final snapshot adds the last point
\* and the test is complete; the next submission can reuse the place
RunComplete(t) ==
    /\ runs[t].pc = "running" /\ runs[t].received_count = runs[t].total
    /\ \E elapsed \in ElapsedSecs :
         time_series' = add_point(time_series,
             create_test_metrics(runs[t].received_count, runs[t].total, 0,
                                 EmptyCodes, 0), elapsed)
    /\ runs' = [runs EXCEPT ![t] = [pc |-> "none", total |-> 0, received_count |-> 0]]
    /\ UNCHANGED <<is_running, test_results, ws_client, sink, published>>
    /\ UNCHANGED <<ctxVars, sub, pt, conns, rule, cli, socket, suite, publisher>>

InitCtx ==
    /\ test = NoTest
    /\ chan = NoChan
    /\ driver = NoDriver
    /\ agg = NoAgg
    /\ viewer = "absent"
    /\ pt = NoCall

(***************************************************************************)
(* The controller/test.rs service.                                         *)
(***************************************************************************)
InitApp ==
    /\ is_running = FALSE
    /\ test_results = <<>>
    /\ time_series = NewTracker
    /\ ws_client = "none"
    /\ sink = [open |-> FALSE, queue |-> <<>>]
    /\ published = [id \in TestIds |-> <<>>]

Init ==
    /\ InitApp
    /\ sub = [s \in Subs |-> IdleSub]
    /\ InitCtx
    /\ conns = NoConns
    /\ rule = NoRule
    /\ cli = NoCli
    /\ socket = NoSocket
    /\ suite = NoSuite
    /\ publisher = NoPublisher
    /\ runs = NoRuns

Step(s) ==
        \/ StartCheck(s)
        \/ StartTest(s)
        \/ TaskBegin(s)
        \/ LoadRequest(s)
        \/ StressBatch(s)
        \/ LoadStressFinish(s)
        \/ ApiRead(s)
        \/ ApiReadError(s)
        \/ ApiRequest(s)
        \/ ApiFinish(s)

Next == \E s \in Subs : Step(s)

Spec == Init /\ [][Next]_vars


(***************************************************************************)
(* The TestContext controllers: one test from submission to its last      *)
(* envelope, with a viewer that may attach, read and leave at any time.    *)
(***************************************************************************)
DriverSteps == DriverStart \/ DriverDeliver \/ DriverDone

AggSteps == AggReceive \/ AggClosed \/ AggComplete

NextAgg ==
    \/ CtxNew
    \/ CtxInvalid
    \/ CtxSpawn
    \/ DriverFail
    \/ DriverStart
    \/ DriverDeliver
    \/ DriverDeadline
    \/ DriverDone
    \/ CtlAbort
    \/ CtlErrorUpdate
    \/ CtlComplete
    \/ AggReceive
    \/ AggClosed
    \/ AggComplete
    \/ ApiFold
    \/ ApiComplete
    \/ ViewerAttach
    \/ ViewerRead
    \/ ViewerClose

SpecAgg == Init /\ [][NextAgg]_vars

\* the runtime keeps polling a task that can make progress
SpecAggFair ==
    /\ Init /\ [][NextAgg]_vars
    /\ WF_vars(DriverSteps)
    /\ WF_vars(AggSteps)

(***************************************************************************)
(* One call of load_test or stress_test of http/client.rs.                  *)
(***************************************************************************)
NextDriver ==
    \/ LoadTestCall
    \/ StressTestCall
    \/ PerformIssue
    \/ PerformResult
    \/ PerformEnd
    \/ StressDeadline
    \/ SetFinished

SpecDriver == Init /\ [][NextDriver]_vars

\* every request sent eventually returns, the runtime keeps polling the
\* stream, and the clock reaches the deadline of a stress test
SpecDriverFair ==
    /\ SpecDriver
    /\ WF_vars(PerformIssue) /\ WF_vars(PerformResult)
    /\ WF_vars(PerformEnd) /\ WF_vars(StressDeadline)

(***************************************************************************)
(* The client slot: connections arrive, read and leave while a test        *)
(* publishes.                                                              *)
(***************************************************************************)
NextBroker ==
    \/ \E v \in Viewers : WsConnect(v)
    \/ \E v \in Viewers : WsRead(v)
    \/ \E v \in Viewers : WsClose(v)
    \/ WsPublish

SpecBroker == Init /\ [][NextBroker]_vars

(***************************************************************************)
(* The tracker alone, fed more snapshots than it retains.                  *)
(***************************************************************************)
NextTracker ==
    \/ TrackerAddPoint
    \/ TrackerReset

SpecTracker == Init /\ [][NextTracker]_vars

(***************************************************************************)
(* The outcomes of an API suite, one after another.                        *)
(***************************************************************************)
NextApiRule == ApiOutcome

SpecApiRule == Init /\ [][NextApiRule]_vars

(***************************************************************************)
(* One run of the command-line program.                                    *)
(***************************************************************************)
NextCli ==
    \/ CliParse
    \/ CliRunTest

SpecCli == Init /\ [][NextCli]_vars

(***************************************************************************)
(* The metrics of a command-line run as requests are recorded.             *)
(***************************************************************************)
NextMetrics == MetricsAddRequest

SpecMetrics == Init /\ [][NextMetrics]_vars

(***************************************************************************)
(* One WebSocket connection and its viewer.                                *)
(***************************************************************************)
NextSocket ==
    \/ SocketOpen
    \/ ClientSend
    \/ ClientClose
    \/ SocketReceive
    \/ SocketForward

SpecSocket == Init /\ [][NextSocket]_vars

\* the runtime keeps polling the two tasks of the connection
SpecSocketFair ==
    /\ SpecSocket
    /\ WF_vars(SocketReceive) /\ WF_vars(SocketForward)

(***************************************************************************)
(* The entries of an API suite, run by the service and by the command-line *)
(* program.                                                                *)
(***************************************************************************)
NextSuite ==
    \/ ServiceApiTest
    \/ CliApiTest

SpecSuite == Init /\ [][NextSuite]_vars

(***************************************************************************)
(* The client slot with the publishing call taken lock by lock.            *)
(***************************************************************************)
NextSlot ==
    \/ \E v \in Viewers : WsConnect(v)
    \/ \E v \in Viewers : WsRead(v)
    \/ \E v \in Viewers : WsClose(v)
    \/ \E v \in Viewers : WsCleanup(v)
    \/ PubGet
    \/ PubTrySend
    \/ PubRemove
    \/ PubBroadcast

SpecSlot == Init /\ [][NextSlot]_vars

(***************************************************************************)
(* Overlapping load tests on the shared tracker.                           *)
(***************************************************************************)
NextRuns ==
    \/ \E t \in Runs : RunNew(t)
    \/ \E t \in Runs : RunSnapshot(t)
    \/ \E t \in Runs : RunComplete(t)

SpecRuns == Init /\ [][NextRuns]_vars

(***************************************************************************)
(* Properties of the controller/test.rs service.                           *)
(***************************************************************************)
\* background tasks spawned and not yet ended
RunningTasks == {s \in Subs : sub[s].pc \in {"task", "read", "loop"}}

\* C1: at most one test is running at any instant: a submission that arrives
\* while another holds the flag, also between the other's check and its
\* store, spawns no task.
C1_AtMostOneTestRunning == Cardinality(RunningTasks) <= 1

\* C2: a submission rejected with "Another test is already running" changes
\* no state: the registry, the time-series tracker, the running flag, the
\* client slot, the published updates and every other submission's task are
\* left as they were, and the rejected submission never starts a task.
C2_RejectionChangesNothing ==
    [][\A s \in Subs :
          /\ (sub[s].pc = "idle" /\ sub'[s].pc = "rejected")
                => /\ UNCHANGED appVars
                   /\ \A t \in Subs \ {s} : sub'[t] = sub[t]
          /\ (sub[s].pc = "rejected") => (sub'[s] = sub[s])]_vars

\* a submission was rejected while a test with recorded results and
\* time-series points was running
C2_Witness ==
    \E s \in Subs :
        /\ sub[s].pc = "rejected"
        /\ RunningTasks # {}
        /\ is_running
        /\ Len(time_series.points) > 0
        /\ Len(test_results) > 0

\* no handler and no background task is active
Quiescent == \A s \in Subs : sub[s].pc \in {"idle", "rejected", "done", "panicked"}

\* C3: the running flag is released on every terminal outcome of the test
\* that acquired it (completion, load-time error, panic of the task): once
\* the tasks have ended the flag is clear.
C3_FlagReleasedOnEveryOutcome == Quiescent => ~is_running

\* C5: the terminal snapshot has status Error if and only if failed > 0
\* (otherwise Completed), has progress 100 and carries the final metrics,
\* and the registry holds a record of the test with that status and metrics.
C5_TerminalStatusIffFailed ==
    \A id \in TestIds : \A i \in 1..Len(published[id]) :
        LET u == published[id][i].update
        IN (IsTerminal(u.status) /\ u.metrics.present)
              => /\ (u.status = "Error") <=> (u.metrics.failed > 0)
                 /\ u.progress = 100
                 /\ \E j \in 1..Len(test_results) :
                        /\ test_results[j].id = id
                        /\ test_results[j].status = u.status
                        /\ test_results[j].metrics = u.metrics

(***************************************************************************)
(* Properties of the TestContext controllers.                              *)
(***************************************************************************)
\* the driver returned Err and the controller task took over
DriverFailed == driver.pc \in {"failed", "aborted", "error_sent", "completed"}

Rank(status) ==
    CASE status = "Pending" -> 0
      [] status = "Started" -> 1
      [] status = "Running" -> 2
      [] OTHER -> 3

\* the statuses of a sequence of records keep the order Pending, Started,
\* Running, terminal, and a terminal status is never followed by another one
InOrder(statuses) ==
    \A i, j \in 1..Len(statuses) :
        i < j => /\ Rank(statuses[i]) <= Rank(statuses[j])
                 /\ IsTerminal(statuses[i]) => statuses[j] = statuses[i]

RegistryWrites(id) ==
    LET RECURSIVE Pick(_)
        Pick(k) == IF k = 0 THEN <<>>
                   ELSE IF test_results[k].id = id
                        THEN Append(Pick(k - 1), test_results[k].status)
                        ELSE Pick(k - 1)
    IN Pick(Len(test_results))

Envelopes(id) == [i \in 1..Len(published[id]) |-> published[id][i].update.status]

\* C4: for every test id the statuses written to the registry and the
\* statuses published on envelopes follow Pending -> Started -> Running ->
\* {Completed, Error}, and once a terminal status has been written or
\* published no later write or envelope for the id carries another status.
C4_StatusesFollowLifecycle ==
    ~DriverFailed =>
        \A id \in TestIds :
            InOrder(RegistryWrites(id)) /\ InOrder(Envelopes(id))

TerminalByAggregator(id) ==
    {i \in 1..Len(published[id]) :
        /\ published[id][i].by = "aggregator"
        /\ IsTerminal(published[id][i].update.status)}

\* C6: after the outcome channel closes the aggregator publishes exactly one
\* envelope with a terminal status for its test, and that envelope is the
\* last one published for the test id by any task.
C6_OneTerminalEnvelopeAndLast ==
    ~DriverFailed => \A id \in TestIds :
        /\ Cardinality(TerminalByAggregator(id)) <= 1
        /\ \A i \in TerminalByAggregator(id) : i = Len(published[id])
        /\ (agg.pc = "finished" /\ test.id = id)
              => Cardinality(TerminalByAggregator(id)) = 1

\* C7: in every state of the load, stress and API aggregator
\* successful_requests + failed_requests = requests_completed, and every
\* processed outcome increases requests_completed by exactly one.
C7_CountersSplitCompleted ==
    /\ [](agg.m.successful_requests + agg.m.failed_requests
            = agg.m.requests_completed)
    /\ [][(agg'.received_count # agg.received_count \/ agg'.m # agg.m)
            => /\ agg'.received_count = agg.received_count + 1
               /\ agg'.m.requests_completed = agg.m.requests_completed + 1]_vars

\* an API aggregator that has counted a response with an unexpected status
\* as failed, next to a successful one
C7_Witness ==
    /\ test.kind = "Api"
    /\ agg.m.successful_requests > 0
    /\ agg.m.status_codes[200] + agg.m.status_codes[500]
          > agg.m.successful_requests
    /\ agg.m.requests_completed = MaxRequests

SnapshotsOf(id) ==
    {i \in 1..Len(published[id]) :
        /\ published[id][i].by = "aggregator"
        /\ published[id][i].update.metrics.present}

\* C8: of any two snapshots emitted by the same aggregator, the earlier one
\* has requests_completed less than or equal to the later one, the terminal
\* snapshot included.
C8_SnapshotsNeverGoBack ==
    \A id \in TestIds : \A i, j \in SnapshotsOf(id) :
        i < j => published[id][i].update.metrics.requests_completed
                    <= published[id][j].update.metrics.requests_completed

\* an aggregator that has emitted growing Running snapshots and its
\* terminal snapshot
C8_Witness ==
    \E id \in TestIds : \E i, j, k \in SnapshotsOf(id) :
        /\ i < j /\ j < k
        /\ published[id][i].update.metrics.requests_completed
              < published[id][j].update.metrics.requests_completed
        /\ published[id][i].update.status = "Running"
        /\ IsTerminal(published[id][k].update.status)

\* the load test's terminal snapshot with every request accounted for
LoadTerminalSnapshot ==
    /\ test.pc = "spawned" /\ test.kind = "Load"
    /\ \E i \in TerminalByAggregator(test.id) :
          published[test.id][i].update.metrics.requests_completed = test.total

\* C10: with a viewer attached whose sink is not drained, a publish returns
\* without waiting and drops its frames once the sink is full, so the
\* aggregator keeps draining the outcome channel and a load test of N
\* requests reaches its terminal snapshot with requests_completed = N.
C10_FullSinkDoesNotStallTheTest ==
    /\ [][(viewer = "attached" /\ Len(sink.queue) = SinkCap
              /\ published' # published /\ viewer' = viewer)
            => sink' = sink]_vars
    /\ (test.pc = "spawned" /\ test.kind = "Load" /\ driver.started > 0)
          ~> LoadTerminalSnapshot

\* the terminal snapshot of a full-length load test published while the
\* attached viewer's sink is full
C10_Witness ==
    /\ viewer = "attached" /\ Len(sink.queue) = SinkCap
    /\ test.total = MaxRequests
    /\ LoadTerminalSnapshot
    /\ Len(published[test.id]) > SinkCap

(***************************************************************************)
(* Properties of the load_test driver of http/client.rs.                   *)
(***************************************************************************)
\* C9: the final requests_completed of a load test never exceeds
\* num_requests, and equals it exactly when the driver was not cancelled,
\* whatever mix of responses and transport errors the requests produced.
C9_CompletedEqualsRequested ==
    (pt.pc = "done" /\ pt.mode = "load") =>
        /\ pt.requests_completed <= pt.total
        /\ (pt.requests_completed = pt.total) <=> ~pt.cancelled

(***************************************************************************)
(* Properties of the client slot.                                          *)
(***************************************************************************)
\* C11: attach on an empty slot installs the new sink and is accepted;
\* attach on an occupied slot whose incumbent would accept a non-blocking
\* send is rejected and leaves the incumbent in the slot; only when that
\* send would fail is the incumbent evicted and the new sink installed. No
\* step replaces an incumbent whose probe would succeed.
C11_AttachProbesTheIncumbent ==
    [][/\ \A v \in Viewers :
            (conns[v] = "idle" /\ conns'[v] # "idle") =>
                IF ws_client # "none" /\ try_send_result(sink) = "Ok"
                THEN /\ conns'[v] = "rejected"
                     /\ ws_client' = ws_client
                     /\ sink'.open
                     /\ \A w \in Viewers \ {v} : conns'[w] = conns[w]
                ELSE /\ conns'[v] = "attached"
                     /\ ws_client' = v
                     /\ sink' = NewSink
                     /\ \A w \in Viewers \ {v} : conns'[w] # "attached"
       /\ (ws_client # "none" /\ ws_client' \notin {ws_client, "none"})
            => try_send_result(sink) # "Ok"]_vars

\* a connection was refused because the incumbent took the probe
C11_Witness ==
    \E v, w \in Viewers :
        /\ conns[v] = "rejected" /\ conns[w] = "attached"
        /\ ws_client = w
        /\ \E i \in 1..Len(sink.queue) : sink.queue[i] = PingFrame

\* C12: publishing is best-effort. A publish on an empty slot changes
\* nothing in the broker; one that finds the viewer's queue full drops the
\* frame and leaves the viewer in the slot; one that finds the viewer's
\* receiver closed clears the slot. In each case the registry takes the
\* update's status and metrics and the aggregator is not stopped.
C12_PublishIsBestEffort ==
    [][\A id \in TestIds :
          Len(published'[id]) = Len(published[id]) + 1 =>
            LET u == published'[id][Len(published'[id])].update
                last == test_results'[Len(test_results')]
            IN /\ ws_client = "none" => (ws_client' = "none" /\ sink' = sink)
               /\ (ws_client # "none" /\ try_send_result(sink) = "Full")
                     => (ws_client' = ws_client /\ sink' = sink)
               /\ (ws_client # "none" /\ try_send_result(sink) = "Closed")
                     => ws_client' = "none"
               /\ last.id = id /\ last.status = u.status
               /\ last.metrics = u.metrics
               /\ agg'.aborted = agg.aborted]_vars

\* a test ran to completion although its viewer had gone: a publish found
\* the receiver closed and cleared the slot
C12_Witness ==
    /\ viewer = "closed" /\ ws_client = "none"
    /\ agg.pc = "finished"
    /\ Len(test_results) > 0
    /\ test_results[Len(test_results)].status = "Completed"

(***************************************************************************)
(* Order of the envelopes in the viewer's queue.                           *)
(***************************************************************************)
RECURSIVE SelectFrames(_, _)
\* the test_update frames of test `id` in a queue, in queue order
SelectFrames(q, id) ==
    IF q = <<>> THEN <<>>
    ELSE IF Head(q).type = "test_update" /\ Head(q).id = id
         THEN <<Head(q)>> \o SelectFrames(Tail(q), id)
         ELSE SelectFrames(Tail(q), id)

\* the frames of the envelopes published for `id`, in publish order
PublishedFrames(id) ==
    [i \in 1..Len(published[id]) |-> UpdateFrame(published[id][i].update)]

RECURSIVE Embeds(_, _, _, _)
\* q[i..] follows the order of p[j..]; a frame of p may occur more than
\* once in q, since send_test_update may enqueue it twice
Embeds(q, p, i, j) ==
    IF i > Len(q) THEN TRUE
    ELSE IF j > Len(p) THEN FALSE
    ELSE IF q[i] = p[j] THEN Embeds(q, p, i + 1, j)
    ELSE Embeds(q, p, i, j + 1)

QueueInPublishOrder ==
    \A id \in TestIds :
        Embeds(SelectFrames(sink.queue, id), PublishedFrames(id), 1, 1)

C14_TrackerKeepsTheLastHundred ==
    /\ [](Len(time_series.points) <= TSMaxPoints)
    /\ [][(Len(time_series.points) = TSMaxPoints
            /\ time_series'.points # time_series.points
            /\ time_series'.points # <<>>)
           => /\ Len(time_series'.points) = TSMaxPoints
              /\ \A i \in 1..(TSMaxPoints - 1) :
                    time_series'.points[i] = time_series.points[i + 1]
              /\ time_series'.points[TSMaxPoints].requests_completed
                    = time_series'.last_completed]_vars

\* a full tracker that has already evicted its first point
C14_Witness ==
    /\ Len(time_series.points) = TSMaxPoints
    /\ time_series.points[1].requests_completed > 1

(***************************************************************************)
(* Rejected submissions of the TestContext controllers.                    *)
(***************************************************************************)
\* C15: a load submission with num_requests = 0, or a stress submission
\* with duration_secs = 0, is answered with an error response, registers no
\* TestResult and spawns neither driver nor aggregator.
C15_InvalidConfigRegistersNothing ==
    (test.pc = "returned" /\ test.kind \in {"Load", "Stress"}) =>
        /\ test.response = "error"
        /\ ~HasResult(test_results, test.id)
        /\ driver = NoDriver /\ agg = NoAgg

\* C16: a pre-flight failure produces an immediate terminal result with
\* status Error, progress 0, zero-valued metrics and an error, and spawns
\* no requests.
C16_PreflightFailureIsErrorAtZero ==
    \A id \in TestIds : \A i \in 1..Len(published[id]) :
        published[id][i].by = "handler" =>
            LET u == published[id][i].update
            IN /\ u.status = "Error" /\ u.error.some
               /\ u.progress = 0
               /\ u.metrics.requests_completed = 0 /\ u.metrics.failed = 0
               /\ driver = NoDriver /\ agg = NoAgg

(***************************************************************************)
(* Success and failure of single outcomes.                                 *)
(***************************************************************************)
\* C17: the aggregator counts an API outcome as successful iff the
\* transport succeeded, the status equals expected_status, and
\* expected_body is absent or equals the parsed response body.
C17_ApiSuccessNeedsStatusAndBody ==
    [][rule'.n = rule.n + 1 =>
        LET l == rule'.last
        IN (rule'.m.successful_requests = rule.m.successful_requests + 1)
            <=> (/\ l.o.ok
                 /\ l.o.status = l.expected_status
                 /\ (l.expected_body = "none" \/ l.body = l.expected_body))]_vars

\* C18: in a load or stress run every request that ends is counted in
\* requests_completed; it is counted as failed iff it ended in a transport
\* error, whatever the status code of a response.
C18_TransportErrorsAreCounted ==
    [][(pt.pc = "run" /\ ~pt.is_finished /\ pt'.inflight = pt.inflight - 1) =>
        /\ pt'.requests_completed = pt.requests_completed + 1
        /\ (pt'.errors = pt.errors + 1)
             <=> (pt'.status_codes = pt.status_codes)]_vars

(***************************************************************************)
(* Properties of the stress_test driver and of the request buffer.         *)
(***************************************************************************)
\* C19: when the deadline of a stress test ends the run, no request that
\* was in flight is abandoned: each runs to completion.
C19_InFlightRequestsSurviveTheDeadline ==
    (pt.pc = "done" /\ pt.mode = "stress") => pt.dropped = 0

C21_EveryRunTerminates ==
    (pt.pc = "run") ~> (pt.pc = "done")

(***************************************************************************)
(* Test ids and the registry.                                              *)
(***************************************************************************)
\* C22: every accepted submission gets a fresh test id: no two tests
\* registered during the lifetime of the process share an id.
C22_TestIdsAreFresh ==
    \A s, t \in Subs :
        (s # t /\ sub[s].id # "" /\ sub[t].id # "") => sub[s].id # sub[t].id

\* C23: a registry update replaces the record of its id: the registry
\* holds exactly one TestResult per registered test id, and a lookup by id
\* returns the status, progress and metrics written last for that test.
C23_OneRecordPerTestAndLookupIsLatest ==
    \A id \in TestIds :
        HasResult(test_results, id) =>
            LET of_id == {i \in 1..Len(test_results) : test_results[i].id = id}
                newest == test_results[CHOOSE i \in of_id :
                                          \A j \in of_id : j <= i]
                found == get_test_result(test_results, id)
            IN /\ Cardinality(of_id) = 1
               /\ found.status = newest.status
               /\ found.progress = newest.progress
               /\ found.metrics = newest.metrics

(***************************************************************************)
(* Properties of the command-line program.                                 *)
(***************************************************************************)
\* `str` is `prefix` followed by something, `suffix` preceded by something
BeginsWith(str, prefix) ==
    \E k \in 0..Len(str) : str = prefix \o SubSeq(str, k + 1, Len(str))

EndsIn(str, suffix) ==
    \E k \in 0..Len(str) : str = SubSeq(str, 1, k) \o suffix

\* C24: validation accepts a command iff, for a load test, the URL begins
\* with http:// or https://, for a stress test, the sitemap path ends in
\* .xml, for an API test, the path ends in .json; any other input yields a
\* validation error and no test is run.
C24_ValidationAcceptsExactlyWellFormedCommands ==
    cli.pc # "start" =>
        LET well_formed ==
                \/ cli.command = "LoadTest"
                   /\ (BeginsWith(cli.arg, Http) \/ BeginsWith(cli.arg, Https))
                \/ cli.command = "StressTest" /\ EndsIn(cli.arg, DotXml)
                \/ cli.command = "ApiTest" /\ EndsIn(cli.arg, DotJson)
        IN /\ (cli.result = "Ok") <=> well_formed
           /\ (cli.config_result = "Ok") <=> well_formed
           /\ well_formed => cli.pc \in {"validated", "ran"}
           /\ ~well_formed => cli.pc = "rejected"

\* an https URL was accepted and its load test run
C24_Witness ==
    /\ cli.pc = "ran" /\ cli.command = "LoadTest"
    /\ starts_with(cli.arg, Https)

\* the properties C25 asks of a summary `s` of the recorded requests
SummaryIsSound(s) ==
    LET times == cli.response_times
        durations == {times[i] : i \in 1..Len(times)}
        four == {s.min_duration, s.median_duration, s.percentile_95,
                 s.max_duration}
    IN /\ s.total_requests = Len(times)
       /\ s.total_time = sum(times)
       /\ sum([i \in 1..Len(times) |->
                 IF cli.status_codes[i] \in DOMAIN s.status_codes
                 THEN 1 ELSE 0]) = s.total_requests
       /\ \A c \in DOMAIN s.status_codes :
             s.status_codes[c] =
                Cardinality({i \in 1..Len(times) : cli.status_codes[i] = c})
       /\ \A d \in four : ~d.out_of_bounds
       /\ IF times = <<>>
          THEN \A d \in four : ~d.some
          ELSE /\ \A d \in four : d.some /\ d.value \in durations
               /\ \A d \in durations :
                     s.min_duration.value <= d /\ d <= s.max_duration.value
               /\ s.min_duration.value <= s.median_duration.value
               /\ s.median_duration.value <= s.percentile_95.value
               /\ s.percentile_95.value <= s.max_duration.value

\* C25: for any sequence of recorded requests the summary has
\* total_requests equal to their number, total_time equal to the sum of
\* their durations, status-code counts that sum to total_requests, and
\* min <= median <= 95th percentile <= max, all taken from the recorded
\* durations; for an empty sequence the four are absent and no index is out
\* of bounds.
C25_SummaryIsSound ==
    /\ SummaryIsSound(summary(cli))
    /\ SummaryIsSound(calculate_summary(cli))

\* eleven requests whose 95th percentile lies below the maximum and whose
\* median lies above the minimum
C25_Witness ==
    /\ Len(cli.response_times) = MaxRecorded
    /\ summary(cli).percentile_95.value < summary(cli).max_duration.value
    /\ summary(cli).min_duration.value < summary(cli).median_duration.value

(***************************************************************************)
(* Start of a test and emission of snapshots.                              *)
(***************************************************************************)
\* C26: the TestResult of a test is first registered with status Pending
\* and progress 0, then a Started envelope is published, and only after
\* that any Running envelope of the test.
C26_PendingThenStartedThenRunning ==
    \A id \in TestIds :
        /\ HasResult(test_results, id) =>
              /\ get_test_result(test_results, id).status = "Pending"
              /\ get_test_result(test_results, id).progress = 0
        /\ \A i \in 1..Len(published[id]) :
              published[id][i].update.status = "Running" =>
                /\ HasResult(test_results, id)
                /\ \E j \in 1..(i - 1) :
                      published[id][j].update.status = "Started"

\* C27: whenever the load, stress or API aggregator processes an outcome
\* that is an error, it publishes a snapshot in that same turn, whether or
\* not the update interval has elapsed.
C27_ErrorOutcomeIsEmittedAtOnce ==
    [][agg'.m.failed_requests = agg.m.failed_requests + 1 =>
        /\ Len(published'[test.id]) = Len(published[test.id]) + 1
        /\ published'[test.id][Len(published'[test.id])].update.metrics.failed
              = agg'.m.failed_requests]_vars

(***************************************************************************)
(* The channel between driver and aggregator.                              *)
(***************************************************************************)
\* outcomes the driver has sent on the channel
Sent == driver.started - driver.inflight

\* C28: the outcome channel never holds more outcomes than its capacity;
\* an outcome is sent only while there is room, so the driver waits when
\* the channel is full; and every outcome sent is counted by the aggregator
\* exactly once before the terminal snapshot is derived.
C28_ChannelIsBoundedAndLossless ==
    /\ [](Len(chan.items) <= ChanCap)
    /\ [][Len(chan'.items) > Len(chan.items) => Len(chan.items) < ChanCap]_vars
    /\ []((test.kind # "Api" /\ ~agg.aborted) =>
            /\ agg.received_count + Len(chan.items) = Sent
            /\ agg.m.requests_completed = agg.received_count
            /\ agg.pc \in {"final", "finished"} =>
                  /\ agg.received_count = driver.started
                  /\ chan.items = <<>>)

\* the channel is full and the driver holds a finished request it cannot
\* send yet
C28_Witness ==
    /\ Len(chan.items) = ChanCap
    /\ driver.pc = "run" /\ driver.inflight > 0
    /\ agg.pc = "recv"

(***************************************************************************)
(* Requests per second of a time-series point.                             *)
(***************************************************************************)
\* the rate a point carries by the rule of deltas: the requests completed
\* since the previous snapshot over the time since the previous point, 0
\* when no time has passed, and a delta of 0 when there is no previous
\* snapshot
DeltaRate(completed, has_prev, prev_completed, elapsed) ==
    IF elapsed = 0 THEN 0
    ELSE (IF has_prev THEN completed - prev_completed ELSE 0) \div elapsed

\* C29: every point added to the time series carries the rate of the delta
\* from the previous snapshot over the elapsed time, 0 when the elapsed time
\* is 0, and a delta of 0 for the first point after a reset.
C29_RateIsTheDeltaOverElapsed ==
    [][(time_series'.has_last /\ time_series'.points # time_series.points) =>
         LET new == time_series'.points[Len(time_series'.points)]
         IN \E elapsed \in ElapsedSecs :
              new.rps = DeltaRate(new.requests_completed, time_series.has_last,
                                  time_series.last_completed, elapsed)]_vars

(***************************************************************************)
(* Progress of envelopes and registry records.                             *)
(***************************************************************************)
\* C30: the progress of every envelope and of every registry record lies in
\* 0..100, and a Running envelope of a load or API test carries
\* 100 * completed / total (capped at 100), where completed is the number
\* of outcomes processed when the envelope is made (the requests_completed
\* of its metrics).
C30_ProgressFollowsTheOutcomes ==
    /\ \A j \in 1..Len(test_results) : test_results[j].progress \in 0..100
    /\ \A id \in TestIds : \A i \in 1..Len(published[id]) :
         LET u == published[id][i].update
         IN /\ u.progress \in 0..100
            /\ (/\ u.status = "Running" /\ u.metrics.present
                /\ u.test_type \in {"Load", "Api"})
                  => u.progress = Progress(u.metrics.requests_completed,
                                           u.metrics.total_requests)

(***************************************************************************)
(* Descriptions of failed API tests.                                       *)
(***************************************************************************)
\* C31: when the fold of an API test classifies an outcome as failed (a
\* transport error or a status other than expected_status), the envelope
\* emitted next carries an error description that names the failing test
\* and, for a status mismatch, the unexpected status.
C31_FailedApiOutcomeIsDescribed ==
    [][(test.kind = "Api" /\ agg'.m.failed_requests = agg.m.failed_requests + 1) =>
         LET q == published'[test.id]
             u == q[Len(q)].update
         IN /\ Len(q) = Len(published[test.id]) + 1
            /\ u.error.some
            /\ "test" \in u.error.names
            /\ (agg'.m.status_codes # agg.m.status_codes)
                  => "status" \in u.error.names]_vars

(***************************************************************************)
(* The viewer's "ping".                                                    *)
(***************************************************************************)
\* the pong frames written to the socket, of either kind
Pongs ==
    Cardinality({i \in 1..Len(socket.wire) :
        socket.wire[i] = Pong \/ socket.wire[i] = Text("pong")})

C33_MethodIsSentOrCountedFailed ==
    suite.by # "none" =>
        IF to_uppercase(suite.method) \in {GET, POST, PUT, DELETE, PATCH, HEAD, OPTIONS}
        THEN suite.request = to_uppercase(suite.method)
        ELSE /\ suite.request = NoRequest
             /\ suite.failed
             /\ suite.n < MaxRequests => ENABLED NextSuite

(***************************************************************************)
(* Who empties the client slot.                                            *)
(***************************************************************************)
\* C34: the slot is emptied only of the sink that was found closed: a
\* publishing call that saw Closed on a stale sink, and the cleanup of a
\* connection that has ended, leave a viewer that attached in the meantime
\* in the slot.
C34_SlotClearedOnlyOfTheClosedSink ==
    [][(ws_client # "none" /\ ws_client' = "none")
          => conns[ws_client] # "attached"]_vars

(***************************************************************************)
(* Frames per published update.                                            *)
(***************************************************************************)
\* C35: a call that publishes a test update puts at most one frame of that
\* update on the sink of the attached viewer, with or without subscribers
\* of the broadcast channel.
C35_OneFramePerPublishedUpdate == publisher.frames <= 1

(***************************************************************************)
(* Sign of the rate of a point.                                            *)
(***************************************************************************)
\* C36: every point the tracker retains has requests per second >= 0,
\* whatever the interleaving of test starts, resets and snapshots of tests
\* that share the tracker.
C36_RateIsNeverNegative ==
    \A i \in 1..Len(time_series.points) : time_series.points[i].rps >= 0

(***************************************************************************)
(* Progress along the envelopes of a test.                                 *)
(***************************************************************************)
\* C37: the progress of the successive envelopes of one test never
\* decreases, on every path, the one where the driver fails and an Error
\* envelope is published included.
C37_ProgressNeverDecreases ==
    \A id \in TestIds : \A i, j \in 1..Len(published[id]) :
        i < j => published[id][i].update.progress <= published[id][j].update.progress

(***************************************************************************)
(* The status-code histogram of an aggregator.                             *)
(***************************************************************************)
RECURSIVE HistogramTotal(_, _)
\* the sum of the counts of `codes` over the statuses in `statuses`
HistogramTotal(codes, statuses) ==
    IF statuses = {} THEN 0
    ELSE LET c == CHOOSE x \in statuses : TRUE
         IN codes[c] + HistogramTotal(codes, statuses \ {c})

\* C38: in every state of an aggregator the counts of the status-code
\* histogram sum to the outcomes whose transport succeeded:
\* successful_requests for load and stress, requests_completed minus the
\* transport errors for an API test.
C38_HistogramCountsTransportSuccesses ==
    IF test.kind = "Api"
    THEN HistogramTotal(agg.m.status_codes, Statuses)
            = agg.m.requests_completed - agg.transport_errors
    ELSE /\ HistogramTotal(agg.m.status_codes, Statuses) = agg.m.successful_requests
         /\ agg.m.failed_requests = agg.transport_errors

\* an API aggregator that has folded a transport error and a response of
\* an unexpected status
C38_Witness ==
    /\ test.kind = "Api"
    /\ agg.transport_errors = 1
    /\ agg.m.failed_requests = 2
    /\ HistogramTotal(agg.m.status_codes, Statuses) = 1

(***************************************************************************)
(* A rejected attach and the incumbent's queue.                            *)
(***************************************************************************)
\* C39: an attach that is rejected because the incumbent viewer is alive
\* leaves the queue of the incumbent's sink exactly as it was.
C39_RejectedAttachLeavesTheQueue ==
    [][\A v \in Viewers :
          (conns[v] = "idle" /\ conns'[v] = "rejected") => sink' = sink]_vars

====
